---------------------------- MODULE Spec2Model ----------------------------
(***************************************************************************)
(* Model of src/src/model_extractor.py: the rule-based model-mention       *)
(* extractor (extract_model_mentions) and the label renderer               *)
(* (best_model_label); and of src/src/version_extractor.py                 *)
(* (extract_claude_version, normalize_version).                            *)
(*                                                                         *)
(* Python strings are sequences of one-character strings, so that          *)
(* strip(), split(), lower(), capitalize() and the RE_VERSION regular      *)
(* expression are computed character by character as the code computes     *)
(* them.  None is the value NULL.  Token indices are 0-based as in the     *)
(* code.                                                                   *)
(***************************************************************************)
EXTENDS Naturals, Integers, Sequences, FiniteSets, TLC

(***************************************************************************)
(* Characters and the str methods the code uses                            *)
(***************************************************************************)

\* None: a one-element sequence that is no Python string of the model
NULL == <<"None">>

UpperChars == <<"A","B","C","D","E","F","G","H","I","J","K","L","M",
                "N","O","P","Q","R","S","T","U","V","W","X","Y","Z">>

LowerChars == <<"a","b","c","d","e","f","g","h","i","j","k","l","m",
                "n","o","p","q","r","s","t","u","v","w","x","y","z">>

DigitChars == {"0","1","2","3","4","5","6","7","8","9"}

\* the characters str.strip() and str.split() treat as whitespace
SpaceChars == {" ", "\t", "\n"}

\* \w of the re module
WordChars == {UpperChars[k] : k \in 1..26} \cup {LowerChars[k] : k \in 1..26}
                \cup DigitChars \cup {"_"}

IsSpace(c) == c \in SpaceChars

\* the lower-case letter of each upper-case letter, and the reverse
ToLower == [c \in {UpperChars[k] : k \in 1..26} |->
                LowerChars[CHOOSE k \in 1..26 : UpperChars[k] = c]]

ToUpper == [c \in {LowerChars[k] : k \in 1..26} |->
                UpperChars[CHOOSE k \in 1..26 : LowerChars[k] = c]]

LowerChar(c) == IF c \in DOMAIN ToLower THEN ToLower[c] ELSE c

UpperChar(c) == IF c \in DOMAIN ToUpper THEN ToUpper[c] ELSE c

\* str.lower()
Lower(s) == [k \in 1..Len(s) |-> LowerChar(s[k])]

\* str.upper()
Upper(s) == [k \in 1..Len(s) |-> UpperChar(s[k])]

\* str.capitalize(): first character upper-cased, the rest lower-cased
Capitalize(s) ==
    [k \in 1..Len(s) |-> IF k = 1 THEN UpperChar(s[k]) ELSE LowerChar(s[k])]

\* str.strip(chars): leading and trailing characters of the set removed
StripChars(s, chars) ==
    LET keep == {k \in 1..Len(s) : s[k] \notin chars}
    IN  IF keep = {} THEN <<>>
        ELSE LET lo == CHOOSE k \in keep : \A j \in keep : k <= j
                 hi == CHOOSE k \in keep : \A j \in keep : k >= j
             IN  SubSeq(s, lo, hi)

\* str.strip()
Strip(s) == StripChars(s, SpaceChars)

\* str.startswith(c) for a one-character prefix
StartsWith(s, c) == Len(s) > 0 /\ s[1] = c

\* str.replace(".", "").isdigit()
IsDigitsWithoutDots(s) ==
    LET rest == SelectSeq(s, LAMBDA c : c # ".")
    IN  Len(rest) > 0 /\ \A k \in 1..Len(rest) : rest[k] \in DigitChars

\* str.split(): the maximal runs of non-whitespace characters
RECURSIVE SplitFrom(_, _)
SplitFrom(s, i) ==
    IF i > Len(s) THEN <<>>
    ELSE IF IsSpace(s[i]) THEN SplitFrom(s, i + 1)
    ELSE LET stops == {k \in i..Len(s) : IsSpace(s[k])}
             e == IF stops = {} THEN Len(s) + 1
                  ELSE CHOOSE k \in stops : \A j \in stops : k <= j
         IN  <<SubSeq(s, i, e - 1)>> \o SplitFrom(s, e)

Split(s) == SplitFrom(s, 1)

\* a Python string as a TLA+ string, for reading labels and versions
RECURSIVE Str(_)
Str(s) == IF s = <<>> THEN "" ELSE Head(s) \o Str(Tail(s))

\* the single space of an f-string
SP == <<" ">>

(***************************************************************************)
(* String literals of the vocabulary                                       *)
(***************************************************************************)

claude == <<"c","l","a","u","d","e">>
anthropic == <<"a","n","t","h","r","o","p","i","c">>
gpt == <<"g","p","t">>
openai == <<"o","p","e","n","a","i">>
gemini == <<"g","e","m","i","n","i">>
llama == <<"l","l","a","m","a">>
mistral == <<"m","i","s","t","r","a","l">>
qwen == <<"q","w","e","n">>
deepseek == <<"d","e","e","p","s","e","e","k">>
google == <<"g","o","o","g","l","e">>
meta == <<"m","e","t","a">>
alibaba == <<"a","l","i","b","a","b","a">>
sonnet == <<"s","o","n","n","e","t">>
haiku == <<"h","a","i","k","u">>
opus == <<"o","p","u","s">>
mini == <<"m","i","n","i">>
pro == <<"p","r","o">>
v3 == <<"3">>
v3_5 == <<"3",".","5">>
v4 == <<"4">>
v4_1 == <<"4",".","1">>
v4_5 == <<"4",".","5">>
o3 == <<"o","3">>
o4 == <<"o","4">>
o3_mini == <<"o","3","-","m","i","n","i">>
o4_mini == <<"o","4","-","m","i","n","i">>
high == <<"h","i","g","h">>
medium == <<"m","e","d","i","u","m">>
low == <<"l","o","w">>

(***************************************************************************)
(* Vocabulary tables (module-level dicts and set of the code)              *)
(***************************************************************************)

\* families with vendor mapping
FAMILIES ==
    (claude :> anthropic) @@ (anthropic :> anthropic) @@ (gpt :> openai) @@
    (openai :> openai) @@ (gemini :> google) @@ (llama :> meta) @@
    (mistral :> mistral) @@ (qwen :> alibaba) @@ (deepseek :> deepseek)

\* tiers with their default vendor ("mini" a weak prior, "pro" none)
TIERS ==
    (sonnet :> anthropic) @@ (haiku :> anthropic) @@ (opus :> anthropic) @@
    (mini :> openai) @@ (pro :> NULL)

\* canonical family token per vendor
VENDOR_TO_FAMILY ==
    (anthropic :> claude) @@ (openai :> gpt) @@ (google :> gemini) @@
    (meta :> llama) @@ (mistral :> mistral) @@ (alibaba :> qwen) @@
    (deepseek :> deepseek)

\* valid (vendor, version, tier)
VALID ==
    { <<anthropic, v3_5, sonnet>>, <<anthropic, v3_5, haiku>>,
      <<anthropic, v3, opus>>,
      <<anthropic, NULL, sonnet>>, <<anthropic, NULL, haiku>>,
      <<anthropic, NULL, opus>>,
      <<openai, v4_1, NULL>>, <<openai, v4_5, NULL>>, <<openai, o3, NULL>>,
      <<openai, o4, NULL>>, <<openai, o3_mini, NULL>> }

\* dict.get(key): NULL for a missing key
Get(d, key) == IF key \in DOMAIN d THEN d[key] ELSE NULL

\* dict.get(key, default)
GetOr(d, key, default) == IF key \in DOMAIN d THEN d[key] ELSE default

\* truth value of an optional string: None and "" are false
Truthy(x) == x # NULL /\ x # <<>>

(***************************************************************************)
(* RE_VERSION = \b(?:3(?:\.5)?|4(?:\.1|\.5)?|o[34](?:-mini)?)\b, IGNORECASE *)
(***************************************************************************)

\* The strings the pattern can match, in the order the backtracking matcher
\* tries them at one start position: the alternatives left to right, the
\* optional group taken before it is skipped.
RE_VERSION_ALTS ==
    << v3_5, v3, v4_1, v4_5, v4, o3_mini, o3, o4_mini, o4 >>

\* is s[k] a \w character (outside the string: no)
IsWordAt(s, k) == k >= 1 /\ k <= Len(s) /\ s[k] \in WordChars

\* \b before position k
WordBoundary(s, k) == IsWordAt(s, k - 1) # IsWordAt(s, k)

\* does the literal lit match s at position i, ignoring case
LiteralAt(s, i, lit) ==
    /\ i + Len(lit) - 1 <= Len(s)
    /\ \A k \in 1..Len(lit) : LowerChar(s[i + k - 1]) = lit[k]

\* the length of the match of RE_VERSION that starts at position i, 0 if none
MatchLenAt(s, i) ==
    LET ok == {a \in 1..Len(RE_VERSION_ALTS) :
                  /\ LiteralAt(s, i, RE_VERSION_ALTS[a])
                  /\ WordBoundary(s, i + Len(RE_VERSION_ALTS[a]))}
    IN  IF ~WordBoundary(s, i) \/ ok = {} THEN 0
        ELSE Len(RE_VERSION_ALTS[CHOOSE a \in ok : \A b \in ok : a <= b])

\* RE_VERSION.finditer(sent) as the list of (m.start(), m.group(0).lower())
RECURSIVE FindVersionsFrom(_, _)
FindVersionsFrom(s, i) ==
    IF i > Len(s) THEN <<>>
    ELSE LET n == MatchLenAt(s, i)
         IN  IF n = 0 THEN FindVersionsFrom(s, i + 1)
             ELSE <<[start |-> i - 1, v |-> Lower(SubSeq(s, i, i + n - 1))]>>
                     \o FindVersionsFrom(s, i + n)

FindVersions(s) == FindVersionsFrom(s, 1)

(***************************************************************************)
(* _split_sentences and _char_to_token                                     *)
(***************************************************************************)

SentenceEnd == {".", "!", "?"}

\* re.split(r"(?<=[.!?])\s+", s) on a stripped, non-empty s: cut at every
\* whitespace run that follows a sentence-terminal character
RECURSIVE ReSplitFrom(_, _, _)
ReSplitFrom(s, start, i) ==
    IF i > Len(s) THEN <<SubSeq(s, start, Len(s))>>
    ELSE IF IsSpace(s[i]) /\ i > 1 /\ s[i - 1] \in SentenceEnd
    THEN LET rest == {k \in i..Len(s) : ~IsSpace(s[k])}
             j == IF rest = {} THEN Len(s) + 1
                  ELSE CHOOSE k \in rest : \A m \in rest : k <= m
         IN  <<SubSeq(s, start, i - 1)>> \o ReSplitFrom(s, j, j)
    ELSE ReSplitFrom(s, start, i + 1)

_split_sentences(text) ==
    IF Strip(text) # <<>> THEN ReSplitFrom(Strip(text), 1, 1) ELSE <<>>

\* the token index the code assigns to character offset char_idx
RECURSIVE CharToTokenFrom(_, _, _, _)
CharToTokenFrom(tokens, char_idx, i, pos) ==
    IF i > Len(tokens)
    THEN (IF Len(tokens) - 1 > 0 THEN Len(tokens) - 1 ELSE 0)
    ELSE LET pos2 == pos + Len(tokens[i]) + 1
         IN  IF pos2 > char_idx THEN i - 1
             ELSE CharToTokenFrom(tokens, char_idx, i + 1, pos2)

_char_to_token(tokens, char_idx) == CharToTokenFrom(tokens, char_idx, 1, 0)

(***************************************************************************)
(* Per-sentence candidate detection (the body of the sentence loop)        *)
(***************************************************************************)

\* the default of the window parameter of extract_model_mentions
window == 12

\* the characters stripped from each lower-cased token
TokenPunct == {".", ",", ":", ";", "(", ")", "[", "]", "{", "}", "\"", "'"}

\* what min() of an empty list raises
ValueError == <<"ValueError">>

Abs(n) == IF n < 0 THEN 0 - n ELSE n

\* a Mention dict.  pass, via and pos are history fields that no modelled
\* code reads: the pass that emitted the mention (A, B, C, or F for fusion),
\* where its vendor came from, and the token index of its anchor.
Mention(vendor, family, version, tier, confidence, text, pass, via, pos) ==
    [vendor |-> vendor, family |-> family, version |-> version, tier |-> tier,
     confidence |-> confidence, text |-> text,
     pass |-> pass, via |-> via, pos |-> pos]

\* lowers = [t.lower().strip(".,:;()[]{}\"'") for t in tokens]
lowers(tokens) ==
    [k \in 1..Len(tokens) |-> StripChars(Lower(tokens[k]), TokenPunct)]

\* (index, family token, vendor) of every token that is a key of FAMILIES
fam_pos(lw) ==
    SelectSeq([k \in 1..Len(lw) |-> <<k - 1, lw[k], Get(FAMILIES, lw[k])>>],
              LAMBDA q : q[2] \in DOMAIN FAMILIES)

\* (index, tier token) of every token that is a key of TIERS
tier_pos(lw) ==
    SelectSeq([k \in 1..Len(lw) |-> <<k - 1, lw[k]>>],
              LAMBDA q : q[2] \in DOMAIN TIERS)

\* (character offset, version) of every match of RE_VERSION in the sentence
ver_pos_chars(sent) ==
    LET ms == FindVersions(sent)
    IN  [k \in 1..Len(ms) |-> <<ms[k].start, ms[k].v>>]

\* (token index, version) of every match
ver_pos(tokens, sent) ==
    LET cs == ver_pos_chars(sent)
    IN  [k \in 1..Len(cs) |-> <<_char_to_token(tokens, cs[k][1]), cs[k][2]>>]

\* min(positions, key=lambda p: abs(p[0] - idx)): the first element at the
\* least distance; ValueError on an empty list
MinByDistance(positions, idx) ==
    IF positions = <<>> THEN ValueError
    ELSE LET d(k) == Abs(positions[k][1] - idx)
             best == CHOOSE k \in 1..Len(positions) :
                        /\ \A j \in 1..Len(positions) : d(k) <= d(j)
                        /\ \A j \in 1..(k - 1) : d(j) > d(k)
         IN  positions[best]

\* nearest_family without its "if not fam_pos" guard
nearest_family_unguarded(fp, idx, win) ==
    LET q == MinByDistance(fp, idx)
    IN  IF q = ValueError THEN ValueError
        ELSE IF Abs(q[1] - idx) <= win
             THEN <<q[2], q[3], Abs(q[1] - idx)>>
             ELSE NULL

\* nearest_family without its test of the distance against the window
nearest_family_unwindowed(fp, idx, win) ==
    IF fp = <<>> THEN NULL
    ELSE LET q == MinByDistance(fp, idx)
         IN  IF q = ValueError THEN ValueError
             ELSE <<q[2], q[3], Abs(q[1] - idx)>>

\* nearest_family with "dist < window" for "dist <= window"
nearest_family_exclusive(fp, idx, win) ==
    IF fp = <<>> THEN NULL
    ELSE LET q == MinByDistance(fp, idx)
         IN  IF q = ValueError THEN ValueError
             ELSE IF Abs(q[1] - idx) < win
                  THEN <<q[2], q[3], Abs(q[1] - idx)>>
                  ELSE NULL

\* nearest_family(idx): (family token, vendor, distance) or None
nearest_family(fp, idx, win) ==
    IF fp = <<>> THEN NULL
    ELSE LET q == MinByDistance(fp, idx)
         IN  IF q = ValueError THEN ValueError
             ELSE IF Abs(q[1] - idx) <= win
                  THEN <<q[2], q[3], Abs(q[1] - idx)>>
                  ELSE NULL

\* the version nearest to tier position i, None if none within the window
nearest_version(vp, i, win) ==
    IF vp # <<>>
    THEN LET q == MinByDistance(vp, i)
         IN  IF q = ValueError THEN ValueError
             ELSE IF Abs(q[1] - i) <= win THEN q[2] ELSE NULL
    ELSE NULL

\* the tier-anchored candidate without its validity gate
ungated_version(vendor, version, tier) == version

\* the validity gate of a tier-anchored candidate: the version it keeps
gated_version(vendor, version, tier) ==
    IF Truthy(vendor) /\ Truthy(version) /\ <<vendor, version, tier>> \notin VALID
    THEN NULL
    ELSE version

\* the tier-anchored candidate made "high" by its version alone
tier_mention_high_on_version(fp, vp, i, tier, sent, win) ==
    LET fam == nearest_family(fp, i, win)
        vendor == IF fam # NULL THEN fam[2] ELSE Get(TIERS, tier)
        family == IF fam # NULL THEN fam[1]
                  ELSE IF Truthy(vendor) THEN Get(VENDOR_TO_FAMILY, vendor)
                  ELSE NULL
        version == gated_version(vendor, nearest_version(vp, i, win), tier)
        confidence == IF Truthy(version) THEN high
                      ELSE IF fam # NULL \/ Truthy(vendor) THEN medium
                      ELSE low
        via == IF fam # NULL THEN "family"
               ELSE IF Truthy(vendor) THEN "tier" ELSE "none"
    IN  Mention(vendor, family, version, tier, confidence, sent, "A", via, i)

\* the tier-anchored candidate falling back to the tier's own vendor when
\* the validity gate fails
tier_mention_regated(fp, vp, i, tier, sent, win) ==
    LET fam == nearest_family(fp, i, win)
        near == IF fam # NULL THEN fam[2] ELSE Get(TIERS, tier)
        found == nearest_version(vp, i, win)
        failed == Truthy(near) /\ Truthy(found)
                    /\ <<near, found, tier>> \notin VALID
        vendor == IF failed THEN Get(TIERS, tier) ELSE near
        family == IF fam # NULL /\ ~failed THEN fam[1]
                  ELSE IF Truthy(vendor) THEN Get(VENDOR_TO_FAMILY, vendor)
                  ELSE NULL
        version == IF failed THEN NULL ELSE found
        confidence == IF fam # NULL /\ Truthy(version) THEN high
                      ELSE IF fam # NULL \/ Truthy(vendor) THEN medium
                      ELSE low
        via == IF fam # NULL THEN "family"
               ELSE IF Truthy(vendor) THEN "tier" ELSE "none"
    IN  Mention(vendor, family, version, tier, confidence, sent, "A", via, i)

\* the tier-anchored candidate preferring the tier's own vendor to the
\* vendor of the nearby family
tier_mention_tier_first(fp, vp, i, tier, sent, win) ==
    LET fam == nearest_family(fp, i, win)
        vendor == IF Truthy(Get(TIERS, tier)) THEN Get(TIERS, tier)
                  ELSE IF fam # NULL THEN fam[2] ELSE NULL
        family == IF fam # NULL THEN fam[1]
                  ELSE IF Truthy(vendor) THEN Get(VENDOR_TO_FAMILY, vendor)
                  ELSE NULL
        version == gated_version(vendor, nearest_version(vp, i, win), tier)
        confidence == IF fam # NULL /\ Truthy(version) THEN high
                      ELSE IF fam # NULL \/ Truthy(vendor) THEN medium
                      ELSE low
        via == IF fam # NULL THEN "family"
               ELSE IF Truthy(vendor) THEN "tier" ELSE "none"
    IN  Mention(vendor, family, version, tier, confidence, sent, "A", via, i)

\* 1) the tier-anchored candidate of tier position (i, tier)
tier_mention(fp, vp, i, tier, sent, win) ==
    LET fam == nearest_family(fp, i, win)
        vendor == IF fam # NULL THEN fam[2] ELSE Get(TIERS, tier)
        family == IF fam # NULL THEN fam[1]
                  ELSE IF Truthy(vendor) THEN Get(VENDOR_TO_FAMILY, vendor)
                  ELSE NULL
        version == gated_version(vendor, nearest_version(vp, i, win), tier)
        confidence == IF fam # NULL /\ Truthy(version) THEN high
                      ELSE IF fam # NULL \/ Truthy(vendor) THEN medium
                      ELSE low
        via == IF fam # NULL THEN "family"
               ELSE IF Truthy(vendor) THEN "tier" ELSE "none"
    IN  Mention(vendor, family, version, tier, confidence, sent, "A", via, i)

\* Pass A dropping the whole candidate, not only its version, when the
\* validity gate fails
pass_a_dropping(fp, tp, vp, sent, win) ==
    LET gate_passes(q) ==
            LET m == tier_mention(fp, vp, q[1], q[2], sent, win)
                v == nearest_version(vp, q[1], win)
            IN  ~(Truthy(m.vendor) /\ Truthy(v)
                    /\ <<m.vendor, v, q[2]>> \notin VALID)
        kept == SelectSeq(tp, gate_passes)
    IN  [k \in 1..Len(kept) |->
            tier_mention(fp, vp, kept[k][1], kept[k][2], sent, win)]

\* 1) the tier-anchored candidates, one per tier position
pass_a(fp, tp, vp, sent, win) ==
    [k \in 1..Len(tp) |-> tier_mention(fp, vp, tp[k][1], tp[k][2], sent, win)]

\* taken_versions = {m["version"] for m in acc if m["version"]}
taken_versions(acc) ==
    {acc[k].version : k \in {j \in 1..Len(acc) : Truthy(acc[j].version)}}

\* the guess without the "4" of v.startswith(("4", "o"))
shape_vendor_o_only(v) ==
    IF StartsWith(v, "o") THEN openai
    ELSE IF StartsWith(v, "3") THEN anthropic
    ELSE NULL

\* the vendor guessed from the shape of a version token
shape_vendor(v) ==
    IF StartsWith(v, "4") \/ StartsWith(v, "o") THEN openai
    ELSE IF StartsWith(v, "3") THEN anthropic
    ELSE NULL

\* 2) the standalone candidate without the guess from the version's shape
version_mention_unguessed(fp, i, v, sent, win) ==
    LET fam == nearest_family(fp, i, win)
        vendor == IF fam # NULL THEN fam[2] ELSE NULL
        family == IF fam # NULL THEN fam[1] ELSE NULL
        confidence == IF fam # NULL THEN high ELSE low
        via == IF fam # NULL THEN "family" ELSE "none"
    IN  Mention(vendor, family, v, NULL, confidence, sent, "B", via, i)

\* 2) the standalone candidate of version position (i, v)
version_mention(fp, i, v, sent, win) ==
    LET fam == nearest_family(fp, i, win)
        vendor == IF fam # NULL THEN fam[2] ELSE shape_vendor(v)
        family == IF fam # NULL THEN fam[1]
                  ELSE IF Truthy(vendor) THEN Get(VENDOR_TO_FAMILY, vendor)
                  ELSE NULL
        confidence == IF fam # NULL THEN high
                      ELSE IF Truthy(vendor) THEN medium ELSE low
        via == IF fam # NULL THEN "family"
               ELSE IF Truthy(vendor) THEN "shape" ELSE "none"
    IN  Mention(vendor, family, v, NULL, confidence, sent, "B", via, i)

\* 2) the standalone candidates without the test "v in taken_versions"
pass_b_unskipped(fp, vp, acc, sent, win) ==
    [k \in 1..Len(vp) |-> version_mention(fp, vp[k][1], vp[k][2], sent, win)]

\* 2) the standalone candidates: one per version position whose version no
\* tier-anchored mention of the sentence took

pass_b(fp, vp, acc, sent, win) ==
    LET rest == SelectSeq(vp, LAMBDA q : q[2] \notin taken_versions(acc))
    IN  [k \in 1..Len(rest) |->
            version_mention(fp, rest[k][1], rest[k][2], sent, win)]

\* 3) a family anchor for every family position, without the test
\* "any(m["vendor"] == fam_vendor for m in acc)"
RECURSIVE pass_c_every(_, _, _, _)
pass_c_every(fp, k, acc, sent) ==
    IF k > Len(fp) THEN acc
    ELSE pass_c_every(fp, k + 1,
                      Append(acc, Mention(fp[k][3], fp[k][2], NULL, NULL,
                                          medium, sent, "C", "family",
                                          fp[k][1])),
                      sent)

\* 3) family anchors whose vendor no mention of the sentence has yet
RECURSIVE pass_c(_, _, _, _)
pass_c(fp, k, acc, sent) ==
    IF k > Len(fp) THEN acc
    ELSE IF \E j \in 1..Len(acc) : acc[j].vendor = fp[k][3]
    THEN pass_c(fp, k + 1, acc, sent)
    ELSE pass_c(fp, k + 1,
                Append(acc, Mention(fp[k][3], fp[k][2], NULL, NULL, medium,
                                    sent, "C", "family", fp[k][1])),
                sent)

\* does the loop body raise on this sentence (a min() of an empty list)
sentence_raises(sent, win) ==
    LET tokens == Split(sent)
        lw == lowers(tokens)
        fp == fam_pos(lw)
        tp == tier_pos(lw)
        vp == ver_pos(tokens, sent)
    IN  \/ \E k \in 1..Len(tp) :
              \/ nearest_family(fp, tp[k][1], win) = ValueError
              \/ nearest_version(vp, tp[k][1], win) = ValueError
        \/ \E k \in 1..Len(vp) : nearest_family(fp, vp[k][1], win) = ValueError

\* acc of one sentence: Pass A, then B, then C; [] for an empty sentence
sentence_mentions(sent, win) ==
    IF sent = <<>> THEN <<>>
    ELSE LET tokens == Split(sent)
             lw == lowers(tokens)
             fp == fam_pos(lw)
             tp == tier_pos(lw)
             vp == ver_pos(tokens, sent)
             a == pass_a(fp, tp, vp, sent, win)
             ab == a \o pass_b(fp, vp, a, sent, win)
         IN  pass_c(fp, 1, ab, sent)

(***************************************************************************)
(* Cross-sentence pairing                                                  *)
(***************************************************************************)

\* mentions = [m for group in per_sentence for m in group]
RECURSIVE flatten(_)
flatten(groups) ==
    IF groups = <<>> THEN <<>> ELSE Head(groups) \o flatten(Tail(groups))

\* add_combined without its test of VALID
add_combined_unchecked(ms, vendor, version, tier, text_join, via) ==
    IF \E k \in 1..Len(ms) : /\ ms[k].vendor = vendor
                             /\ ms[k].version = version
                             /\ ms[k].tier = tier
    THEN ms
    ELSE Append(ms, Mention(vendor, GetOr(VENDOR_TO_FAMILY, vendor, vendor),
                            version, tier, high, text_join, "F", via, 0 - 1))

\* add_combined whose duplicate test leaves the version out
add_combined_loose(ms, vendor, version, tier, text_join, via) ==
    IF <<vendor, version, tier>> \notin VALID THEN ms
    ELSE IF \E k \in 1..Len(ms) : /\ ms[k].vendor = vendor
                                  /\ ms[k].tier = tier
    THEN ms
    ELSE Append(ms, Mention(vendor, GetOr(VENDOR_TO_FAMILY, vendor, vendor),
                            version, tier, high, text_join, "F", via, 0 - 1))

\* add_combined with mentions.insert(0, ...) for mentions.append(...)
add_combined_front(ms, vendor, version, tier, text_join, via) ==
    IF <<vendor, version, tier>> \notin VALID THEN ms
    ELSE IF \E k \in 1..Len(ms) : /\ ms[k].vendor = vendor
                                  /\ ms[k].version = version
                                  /\ ms[k].tier = tier
    THEN ms
    ELSE <<Mention(vendor, GetOr(VENDOR_TO_FAMILY, vendor, vendor),
                   version, tier, high, text_join, "F", via, 0 - 1)>> \o ms

\* add_combined without its loop over the mentions already in the list
add_combined_repeating(ms, vendor, version, tier, text_join, via) ==
    IF <<vendor, version, tier>> \notin VALID THEN ms
    ELSE Append(ms, Mention(vendor, GetOr(VENDOR_TO_FAMILY, vendor, vendor),
                            version, tier, high, text_join, "F", via, 0 - 1))

\* add_combined: the mentions list after the call
add_combined(ms, vendor, version, tier, text_join, via) ==
    IF <<vendor, version, tier>> \notin VALID THEN ms
    ELSE IF \E k \in 1..Len(ms) : /\ ms[k].vendor = vendor
                                  /\ ms[k].version = version
                                  /\ ms[k].tier = tier
    THEN ms
    ELSE Append(ms, Mention(vendor, GetOr(VENDOR_TO_FAMILY, vendor, vendor),
                            version, tier, high, text_join, "F", via, 0 - 1))

\* the (m1, m2) index pairs of the nested loops "for m1 in curr: for m2 in
\* nxt", in iteration order
loop_pairs(curr, nxt) ==
    [n \in 1..(Len(curr) * Len(nxt)) |->
        <<((n - 1) \div Len(nxt)) + 1, ((n - 1) % Len(nxt)) + 1>>]

\* first loop: m1 has vendor and version but no tier, m2 the same vendor and
\* a tier but no version
version_then_tier(m1, m2) ==
    /\ Truthy(m1.vendor) /\ Truthy(m1.version) /\ ~Truthy(m1.tier)
    /\ m2.vendor = m1.vendor /\ Truthy(m2.tier) /\ ~Truthy(m2.version)

\* second loop: m1 has vendor and tier but no version, m2 the same vendor
\* and a version but no tier
tier_then_version(m1, m2) ==
    /\ Truthy(m1.vendor) /\ Truthy(m1.tier) /\ ~Truthy(m1.version)
    /\ m2.vendor = m1.vendor /\ Truthy(m2.version) /\ ~Truthy(m2.tier)

\* where the vendor of a fused mention came from
fused_via(m1, m2) ==
    IF m1.via = "family" \/ m2.via = "family" THEN "family" ELSE "fallback"

\* the calls of add_combined one adjacent pair of sentences makes, in order:
\* (vendor, version, tier, text_join)
combine_calls(curr, nxt) ==
    LET ps == loop_pairs(curr, nxt)
        first == SelectSeq(ps, LAMBDA q : version_then_tier(curr[q[1]], nxt[q[2]]))
        second == SelectSeq(ps, LAMBDA q : tier_then_version(curr[q[1]], nxt[q[2]]))
    IN  [k \in 1..Len(first) |->
            LET m1 == curr[first[k][1]]
                m2 == nxt[first[k][2]]
            IN  <<m1.vendor, m1.version, m2.tier, m1.text \o SP \o m2.text,
                  fused_via(m1, m2)>>]
        \o
        [k \in 1..Len(second) |->
            LET m1 == curr[second[k][1]]
                m2 == nxt[second[k][2]]
            IN  <<m1.vendor, m2.version, m1.tier, m1.text \o SP \o m2.text,
                  fused_via(m1, m2)>>]

RECURSIVE apply_calls(_, _)
apply_calls(ms, calls) ==
    IF calls = <<>> THEN ms
    ELSE apply_calls(add_combined(ms, calls[1][1], calls[1][2], calls[1][3],
                                  calls[1][4], calls[1][5]),
                     Tail(calls))

\* one iteration of "for i in range(len(per_sentence) - 1)"
fuse_pair(ms, curr, nxt) == apply_calls(ms, combine_calls(curr, nxt))

(***************************************************************************)
(* best_model_label                                                        *)
(***************************************************************************)

conf_rank == (high :> 0) @@ (medium :> 1) @@ (low :> 2)

\* sorted(..., reverse=True): the lowest confidence first
ordered_descending(ms) ==
    SelectSeq(ms, LAMBDA m : conf_rank[m.confidence] = 2)
        \o SelectSeq(ms, LAMBDA m : conf_rank[m.confidence] = 1)
        \o SelectSeq(ms, LAMBDA m : conf_rank[m.confidence] = 0)

\* mentions.sort(key=...): the caller's list sorted in place
mentions_after_sort(ms) ==
    SelectSeq(ms, LAMBDA m : conf_rank[m.confidence] = 0)
        \o SelectSeq(ms, LAMBDA m : conf_rank[m.confidence] = 1)
        \o SelectSeq(ms, LAMBDA m : conf_rank[m.confidence] = 2)

\* the caller's list after sorted(mentions, ...): sorted() builds a new list
mentions_after_sorted(ms) == ms

\* sorted(mentions, key=conf_rank): a stable sort on three key values
ordered(ms) ==
    SelectSeq(ms, LAMBDA m : conf_rank[m.confidence] = 0)
        \o SelectSeq(ms, LAMBDA m : conf_rank[m.confidence] = 1)
        \o SelectSeq(ms, LAMBDA m : conf_rank[m.confidence] = 2)

Claude_ == <<"C","l","a","u","d","e">>
GPT_dash == <<"G","P","T","-">>
OpenAI_ == <<"O","p","e","n","A","I">>
Unknown == <<"U","n","k","n","o","w","n">>

\* fmt without the branch of an openai version that starts with "o"
fmt_gpt_always(m) ==
    IF m.vendor = anthropic
    THEN IF Truthy(m.version) /\ Truthy(m.tier)
         THEN IF IsDigitsWithoutDots(m.version)
              THEN Claude_ \o SP \o Capitalize(m.version) \o SP \o Capitalize(m.tier)
              ELSE Claude_ \o SP \o Upper(m.version) \o SP \o Capitalize(m.tier)
         ELSE IF Truthy(m.tier) THEN Claude_ \o SP \o Capitalize(m.tier)
         ELSE IF Truthy(m.version)
         THEN IF StartsWith(m.version, "o")
              THEN Claude_ \o SP \o Upper(m.version)
              ELSE Claude_ \o SP \o m.version
         ELSE Claude_
    ELSE IF m.vendor = openai
    THEN IF Truthy(m.version) THEN GPT_dash \o m.version ELSE OpenAI_
    ELSE IF Truthy(m.tier) THEN Capitalize(m.tier)
    ELSE IF Truthy(m.vendor) THEN Capitalize(m.vendor)
    ELSE Unknown

\* fmt(m)
fmt(m) ==
    IF m.vendor = anthropic
    THEN IF Truthy(m.version) /\ Truthy(m.tier)
         THEN IF IsDigitsWithoutDots(m.version)
              THEN Claude_ \o SP \o Capitalize(m.version) \o SP \o Capitalize(m.tier)
              ELSE Claude_ \o SP \o Upper(m.version) \o SP \o Capitalize(m.tier)
         ELSE IF Truthy(m.tier) THEN Claude_ \o SP \o Capitalize(m.tier)
         ELSE IF Truthy(m.version)
         THEN IF StartsWith(m.version, "o")
              THEN Claude_ \o SP \o Upper(m.version)
              ELSE Claude_ \o SP \o m.version
         ELSE Claude_
    ELSE IF m.vendor = openai
    THEN IF Truthy(m.version)
         THEN IF StartsWith(m.version, "o") THEN Upper(m.version)
              ELSE GPT_dash \o m.version
         ELSE OpenAI_
    ELSE IF Truthy(m.tier) THEN Capitalize(m.tier)
    ELSE IF Truthy(m.vendor) THEN Capitalize(m.vendor)
    ELSE Unknown

\* the label of the first mention in confidence order, "Unknown" included
best_model_label_unfiltered(ms) ==
    IF ms = <<>> THEN NULL ELSE fmt(ordered(ms)[1])

\* the label of the first mention, in confidence order, that does not format
\* to "Unknown"; None if there is none
best_model_label(ms) ==
    IF ms = <<>> THEN NULL
    ELSE LET o == ordered(ms)
             ok == {k \in 1..Len(o) : fmt(o[k]) # <<>> /\ fmt(o[k]) # Unknown}
         IN  IF ok = {} THEN NULL
             ELSE fmt(o[CHOOSE k \in ok : \A j \in ok : k <= j])

(***************************************************************************)
(* Inputs                                                                  *)
(***************************************************************************)

\* the most words a generated (title, body) pair holds together
MaxWords == 3

\* the concurrent calls of the second specification
NumCalls == 2

W_Claude == <<"C","l","a","u","d","e">>
W_GPT == <<"G","P","T">>
W_Sonnet == <<"S","o","n","n","e","t">>
W_Pro == <<"p","r","o">>
W_3_5 == <<"3",".","5">>
W_4_5 == <<"4",".","5">>
W_3_7 == <<"3",".","7">>
W_Ok == <<"o","k",".">>

\* the words generated texts are made of: two family tokens, two tier
\* tokens (one without a default vendor), two version tokens, a number
\* that is no version token, and a word that ends a sentence
Words ==
    {W_Claude, W_GPT, W_Sonnet, W_Pro, W_3_5, W_4_5, W_3_7, W_Ok}

\* " ".join(ws)
RECURSIVE Join(_)
Join(ws) ==
    IF ws = <<>> THEN <<>>
    ELSE IF Len(ws) = 1 THEN ws[1]
    ELSE ws[1] \o SP \o Join(Tail(ws))

\* every sequence of at most MaxWords words, as a title without a body and
\* as a title with the last word as the body
GeneratedInputs ==
    UNION { { <<Join(SubSeq(ws, 1, nk[2])),
                 Join(SubSeq(ws, nk[2] + 1, nk[1]))>> :
                ws \in [1..nk[1] -> Words] } :
            nk \in {q \in (0..MaxWords) \X (0..MaxWords) :
                       q[2] <= q[1] /\ q[2] >= q[1] - 1} }

FusionTitle ==
    <<"C","l","a","u","d","e"," ","3",".","5"," ","j","u","s","t"," ",
      "d","r","o","p","p","e","d",".">>
FusionBody ==
    <<"S","o","n","n","e","t"," ","i","s"," ","f","a","n","t","a","s","t",
      "i","c",".">>
Gpt8Title ==
    <<"O","p","e","n","A","I"," ","a","n","n","o","u","n","c","e","s"," ",
      "G","P","T","-","8","!">>
Gpt8Body ==
    <<"B","i","g"," ","l","e","a","p"," ","a","h","e","a","d",".">>
MixedTitle ==
    <<"I"," ","u","s","e"," ","G","P","T","-","4",".","5"," ","s","o","m",
      "e","t","i","m","e","s",","," ","b","u","t"," ","S","o","n","n","e",
      "t"," ","f","e","e","l","s"," ","f","a","s","t","e","r",".">>
BothFastTitle ==
    <<"4",".","5"," ","a","n","d"," ","S","o","n","n","e","t"," ","a","r",
      "e"," ","b","o","t","h"," ","f","a","s","t",".">>
TripleTitle ==
    <<"S","o","n","n","e","t"," ","3",".","5","."," ","C","l","a","u","d",
      "e"," ","3",".">>
TripleBody == <<"O","p","u","s">>
BlankTitle == <<" "," ">>
BlankBody == <<" ","\t">>
PunctTitle == <<".",".",".">>
PunctBody == <<"?","!">>

W_X == <<"x">>

\* twelve words that are no token of the vocabulary
Filler12 == [k \in 1..12 |-> W_X]

\* a family token and a version 13 and more tokens before two tier tokens
FarTitle == Join(<<W_GPT, W_4_5>> \o Filler12 \o <<W_Pro, W_Sonnet>>)

\* a family token exactly 12 tokens before a tier token
NearTitle == Join(<<W_GPT>> \o SubSeq(Filler12, 1, 11) \o <<W_Sonnet, W_3_5>>)

\* sentences that fuse twice: in the version-then-tier scan and in the
\* tier-then-version scan of the same pair
TwoScansTitle == <<"O","p","u","s"," ","3",".","5",".">>
TwoScansBody == <<"S","o","n","n","e","t"," ","3">>

\* sentences that fuse in two different pairs
TwoPairsTitle ==
    <<"C","l","a","u","d","e"," ","3",".","5","."," ","H","a","i","k","u",
      ".">>
TwoPairsBody ==
    <<"C","l","a","u","d","e"," ","3","."," ","O","p","u","s",".">>

\* a sentence of two words n tokens apart, words that are no token of the
\* vocabulary between them
Apart(a, n, b) == Join(<<a>> \o SubSeq(Filler12 \o Filler12, 1, n - 1) \o <<b>>)

\* further texts an argument may be
OtherScenarioInputs ==
    { \* an upper-case version token that starts with "o", beside a tier
      <<Join(<<Upper(o3_mini), W_Sonnet>>), <<>>>>,
      \* two different family tokens of one vendor
      <<Join(<<W_Claude, Capitalize(anthropic)>>), <<>>>>,
      \* a family token window and window + 1 tokens from a tier token and
      \* from a version, before it and after it
      <<Apart(W_GPT, window + 1, W_Sonnet), <<>>>>,
      <<Apart(W_Claude, window, W_4_5), <<>>>>,
      <<Apart(W_Claude, window + 1, W_4_5), <<>>>>,
      <<Apart(W_4_5, window, W_Claude), <<>>>>,
      <<Apart(W_4_5, window + 1, W_Claude), <<>>>>,
      \* a version window and window + 1 tokens from a tier token
      <<Apart(W_3_5, window, W_Sonnet), <<>>>>,
      <<Apart(W_3_5, window + 1, W_Sonnet), <<>>>>,
      <<Apart(W_Sonnet, window, W_3_5), <<>>>>,
      \* one pair of sentences that offers the same fusion twice
      <<Join(<<W_3_5, W_Ok>>), Join(<<W_Sonnet, W_Sonnet>>)>>,
      \* a fusion whose triple a later sentence has by itself
      <<Join(<<W_3_5, W_Ok, W_Sonnet \o <<".">>>>), Join(<<W_Sonnet, W_3_5>>)>>,
      \* two pairs of sentences that offer the same fusion
      <<Join(<<W_Sonnet, W_Ok, W_3_5, W_Ok>>), W_Sonnet>>,
      \* a version and a tier of one vendor two sentences apart
      <<Join(<<W_3_5, W_Ok, W_Ok>>), W_Sonnet>>,
      <<Join(<<W_Sonnet, W_Ok, W_Ok>>), W_3_5>>,
      \* tokens separated by more than one whitespace character
      <<W_Claude \o <<" ", " ", " ">> \o v3 \o SP \o W_GPT, <<>>>>,
      <<W_Claude \o <<" ", " ">> \o v3 \o SP \o W_GPT, <<>>>>,
      \* the tier with the default vendor openai, and a family token of a
      \* vendor that has no tier of its own
      <<Join(<<mini, W_3_5>>), <<>>>>, <<Join(<<gemini, W_Pro, o4>>), <<>>>> }

\* the inputs of the tests and of the documented scenarios, and blank and
\* punctuation-only text
ScenarioInputs ==
    { <<FusionTitle, FusionBody>>, <<FusionBody, FusionTitle>>,
      <<Gpt8Title, Gpt8Body>>, <<MixedTitle, <<>>>>,
      <<BothFastTitle, <<>>>>, <<BlankTitle, BlankBody>>,
      <<PunctTitle, PunctBody>>, <<<<>>, BlankBody>>,
      <<TripleTitle, TripleBody>>, <<FarTitle, <<>>>>, <<NearTitle, <<>>>>,
      <<TwoScansTitle, TwoScansBody>>, <<TwoPairsTitle, TwoPairsBody>> }
    \cup OtherScenarioInputs

Inputs == GeneratedInputs \cup ScenarioInputs

\* the inputs of the concurrent calls
ConcurrentInputs ==
    { <<FusionTitle, FusionBody>>, <<TripleTitle, TripleBody>>,
      <<Join(<<W_Pro, W_3_5>>), <<>>>>, <<<<>>, <<>>>> }

Calls == 1..NumCalls

(***************************************************************************)
(* State: the frames of the calls of extract_model_mentions                *)
(***************************************************************************)

VARIABLES
    pc,             \* where each call is: idle, sentences, pairs, done,
                    \* labelled, or raised
    title, text,    \* the arguments of each call
    sentences,      \* the local list sentences
    per_sentence,   \* the local list per_sentence
    mentions,       \* the local list mentions
    i,              \* the index of the pairing loop
    result,         \* the list each call returned
    label           \* best_model_label of the returned list

vars == <<pc, title, text, sentences, per_sentence, mentions, i, result,
          label>>

Init ==
    /\ pc = [p \in Calls |-> "idle"]
    /\ title = [p \in Calls |-> <<>>]
    /\ text = [p \in Calls |-> <<>>]
    /\ sentences = [p \in Calls |-> <<>>]
    /\ per_sentence = [p \in Calls |-> <<>>]
    /\ mentions = [p \in Calls |-> <<>>]
    /\ i = [p \in Calls |-> 0]
    /\ result = [p \in Calls |-> <<>>]
    /\ label = [p \in Calls |-> NULL]

\* content: the stripped title, a space and the stripped text
content(t, b) ==
    LET c == Strip(t)
    IN  IF b # <<>>
        THEN (IF c # <<>> THEN c \o SP \o Strip(b) ELSE Strip(b))
        ELSE c

\* sentences = _split_sentences(content) or [content]
split_or_whole(c) ==
    IF _split_sentences(c) # <<>> THEN _split_sentences(c) ELSE <<c>>

\* the lists the calls so far have returned, one after the other
RECURSIVE returned_so_far(_)
returned_so_far(p) ==
    IF p = 0 THEN <<>>
    ELSE returned_so_far(p - 1)
            \o (IF pc[p] \in {"done", "labelled"} THEN result[p] ELSE <<>>)

\* mentions kept in one module-level list that every call appends to
initial_mentions_shared(groups) == returned_so_far(NumCalls) \o flatten(groups)

\* the list mentions starts as: a fresh list per call
initial_mentions(groups) == flatten(groups)

\* the call is entered: the arguments are bound and the text is split
Call(p, t, b) ==
    /\ pc[p] = "idle"
    /\ title' = [title EXCEPT ![p] = t]
    /\ text' = [text EXCEPT ![p] = b]
    /\ sentences' = [sentences EXCEPT ![p] = split_or_whole(content(t, b))]
    /\ per_sentence' = [per_sentence EXCEPT ![p] = <<>>]
    /\ pc' = [pc EXCEPT ![p] = "sentences"]
    /\ UNCHANGED <<mentions, i, result, label>>

\* one iteration of "for sent in sentences"
Sentence(p) ==
    /\ pc[p] = "sentences"
    /\ Len(per_sentence[p]) < Len(sentences[p])
    /\ LET sent == sentences[p][Len(per_sentence[p]) + 1]
       IN  IF sent # <<>> /\ sentence_raises(sent, window)
           THEN /\ pc' = [pc EXCEPT ![p] = "raised"]
                /\ UNCHANGED per_sentence
           ELSE /\ per_sentence' = [per_sentence EXCEPT ![p] =
                        Append(@, sentence_mentions(sent, window))]
                /\ UNCHANGED pc
    /\ UNCHANGED <<title, text, sentences, mentions, i, result, label>>

\* the sentence loop is over: the initial mentions are flattened
Flatten(p) ==
    /\ pc[p] = "sentences"
    /\ Len(per_sentence[p]) = Len(sentences[p])
    /\ mentions' = [mentions EXCEPT ![p] = initial_mentions(per_sentence[p])]
    /\ i' = [i EXCEPT ![p] = 0]
    /\ pc' = [pc EXCEPT ![p] = "pairs"]
    /\ UNCHANGED <<title, text, sentences, per_sentence, result, label>>

\* sentence a of groups fused with each of the sentences b, b + 1, ...
RECURSIVE fuse_with_later(_, _, _, _)
fuse_with_later(ms, groups, a, b) ==
    IF b > Len(groups) THEN ms
    ELSE fuse_with_later(fuse_pair(ms, groups[a], groups[b]), groups, a, b + 1)

\* one iteration of a pairing loop that looks at every later sentence, not
\* only the next one
PairWithAllLater(p) ==
    /\ pc[p] = "pairs"
    /\ i[p] < Len(per_sentence[p]) - 1
    /\ mentions' = [mentions EXCEPT ![p] =
            fuse_with_later(@, per_sentence[p], i[p] + 1, i[p] + 2)]
    /\ i' = [i EXCEPT ![p] = @ + 1]
    /\ UNCHANGED <<pc, title, text, sentences, per_sentence, result, label>>

\* one iteration of "for i in range(len(per_sentence) - 1)"
Pair(p) ==
    /\ pc[p] = "pairs"
    /\ i[p] < Len(per_sentence[p]) - 1
    /\ mentions' = [mentions EXCEPT ![p] =
            fuse_pair(@, per_sentence[p][i[p] + 1], per_sentence[p][i[p] + 2])]
    /\ i' = [i EXCEPT ![p] = @ + 1]
    /\ UNCHANGED <<pc, title, text, sentences, per_sentence, result, label>>

\* return mentions
Return(p) ==
    /\ pc[p] = "pairs"
    /\ i[p] >= Len(per_sentence[p]) - 1
    /\ result' = [result EXCEPT ![p] = mentions[p]]
    /\ pc' = [pc EXCEPT ![p] = "done"]
    /\ UNCHANGED <<title, text, sentences, per_sentence, mentions, i, label>>

\* the caller renders the returned list: best_model_label(mentions)
Label(p) ==
    /\ pc[p] = "done"
    /\ label' = [label EXCEPT ![p] = best_model_label(result[p])]
    /\ result' = [result EXCEPT ![p] = mentions_after_sorted(@)]
    /\ pc' = [pc EXCEPT ![p] = "labelled"]
    /\ UNCHANGED <<title, text, sentences, per_sentence, mentions, i>>

\* one call, on any input
Next ==
    \/ pc[1] = "idle" /\ \E in \in Inputs : Call(1, in[1], in[2])
    \/ Sentence(1)
    \/ Flatten(1)
    \/ Pair(1)
    \/ Return(1)
    \/ Label(1)

Spec == Init /\ [][Next]_vars

\* NumCalls calls whose steps interleave
ConcurrentNext ==
    \E p \in Calls :
        \/ pc[p] = "idle"
              /\ \E in \in ConcurrentInputs : Call(p, in[1], in[2])
        \/ Sentence(p)
        \/ Flatten(p)
        \/ Pair(p)
        \/ Return(p)
        \/ Label(p)

ConcurrentSpec == Init /\ [][ConcurrentNext]_vars

(***************************************************************************)
(* best_model_label on any list of mentions a caller may hold              *)
(***************************************************************************)

\* the longest list of mentions a caller passes
MaxMentions == 2

\* the mentions a caller may pass: each vendor branch of fmt, without a
\* version, with one that starts with "o" and with a number, with and
\* without a tier, at each confidence
AnyMentions ==
    { Mention(vd, Get(VENDOR_TO_FAMILY, vd), vs, tr, cf, <<>>, "F", "none", -1) :
        vd \in {anthropic, openai, google, NULL}, vs \in {NULL, o3, v3_5},
        tr \in {NULL, pro}, cf \in {high, medium, low} }

AnyMentionLists ==
    UNION { [1..n -> AnyMentions] : n \in 0..MaxMentions }

\* the caller holds the list ms
Given(p, ms) ==
    /\ pc[p] = "idle"
    /\ result' = [result EXCEPT ![p] = ms]
    /\ pc' = [pc EXCEPT ![p] = "done"]
    /\ UNCHANGED <<title, text, sentences, per_sentence, mentions, i, label>>

LabelNext ==
    \/ pc[1] = "idle" /\ \E ms \in AnyMentionLists : Given(1, ms)
    \/ Label(1)

LabelSpec == Init /\ [][LabelNext]_vars

(***************************************************************************)
(* src/src/version_extractor.py                                            *)
(***************************************************************************)

code == <<"c","o","d","e">>
ai == <<"a","i">>

\* the alternatives "a.b" and "a-b" of a version group
Dotted(a, b) == <<a, ".", b>>
Dashed(a, b) == <<a, "-", b>>

\* a pattern word\s*(?:alts) or word\s+(?:alts): the word, the least number
\* of whitespace characters, the alternatives in order (none: the word alone)
Pat(word, sep, alts) == [word |-> word, sep |-> sep, alts |-> alts]

\* patterns, ordered by specificity
patterns ==
    << Pat(sonnet, 0, <<Dotted("4", "5"), Dashed("4", "5")>>),
       Pat(sonnet, 0, <<Dotted("3", "7"), Dashed("3", "7")>>),
       Pat(sonnet, 0, <<Dotted("3", "5"), Dashed("3", "5")>>),
       Pat(opus, 0, <<Dotted("4", "0"), Dashed("4", "0"), <<"4">>>>),
       Pat(opus, 0, <<Dotted("3", "5"), Dashed("3", "5")>>),
       Pat(haiku, 0, <<Dotted("3", "5"), Dashed("3", "5")>>),
       Pat(claude, 0, <<Dotted("3", "7"), Dashed("3", "7")>>),
       Pat(claude, 0, <<Dotted("3", "5"), Dashed("3", "5")>>),
       Pat(claude, 0, <<Dotted("3", "0"), Dashed("3", "0"), <<"3">>>>),
       Pat(claude, 0, <<Dotted("4", "5"), Dashed("4", "5")>>),
       Pat(claude, 0, <<Dotted("4", "0"), Dashed("4", "0"), <<"4">>>>),
       Pat(claude, 0, <<Dotted("2", "5"), Dashed("2", "5")>>),
       Pat(claude, 0, <<Dotted("2", "0"), Dashed("2", "0"), <<"2">>>>),
       Pat(sonnet, 0, <<>>),
       Pat(opus, 0, <<>>),
       Pat(haiku, 0, <<>>),
       Pat(claude, 1, <<code, ai>>) >>

\* the number of whitespace characters of s from position j on
SpaceRun(s, j) ==
    LET stops == {k \in j..Len(s) : ~IsSpace(s[k])}
    IN  IF stops = {} THEN Len(s) + 1 - j
        ELSE (CHOOSE k \in stops : \A m \in stops : k <= m) - j

\* the length of the match of pattern pat that starts at position at of s,
\* 0 if none: the word, the whole whitespace run (greedy; no alternative
\* starts with whitespace), the first alternative that matches
PatMatchLenAt(pat, s, at) ==
    IF ~LiteralAt(s, at, pat.word) THEN 0
    ELSE IF pat.alts = <<>> THEN Len(pat.word)
    ELSE LET j == at + Len(pat.word)
             run == SpaceRun(s, j)
             hits == {a \in 1..Len(pat.alts) : LiteralAt(s, j + run, pat.alts[a])}
         IN  IF run < pat.sep \/ hits = {} THEN 0
             ELSE Len(pat.word) + run
                    + Len(pat.alts[CHOOSE a \in hits : \A b \in hits : a <= b])

\* re.search(pattern, s): (match.start(), match.group(0)) of the leftmost
\* match, None if there is none
re_search(pat, s) ==
    LET starts == {k \in 1..Len(s) : PatMatchLenAt(pat, s, k) > 0}
    IN  IF starts = {} THEN NULL
        ELSE LET k == CHOOSE a \in starts : \A b \in starts : a <= b
             IN  <<k - 1, SubSeq(s, k, k + PatMatchLenAt(pat, s, k) - 1)>>

\* matches: (match.start(), match.group(0).strip(), index of the pattern)
\* for each pattern that matches, in the order of patterns
matches(full_text) ==
    LET found == [k \in 1..Len(patterns) |->
                     <<re_search(patterns[k], full_text), k>>]
        hit == SelectSeq(found, LAMBDA f : f[1] # NULL)
    IN  [n \in 1..Len(hit) |->
            <<hit[n][1][1], Strip(hit[n][1][2]), hit[n][2]>>]

\* matches[0] of the list left unsorted: the pattern listed first wins
first_unsorted(ms) == ms[1]

\* matches[0] after matches.sort(key=(start, index of the pattern))
first_sorted(ms) ==
    ms[CHOOSE k \in 1..Len(ms) :
          \A j \in 1..Len(ms) :
              \/ ms[k][1] < ms[j][1]
              \/ ms[k][1] = ms[j][1] /\ ms[k][3] <= ms[j][3]]

\* "lit in s"
Contains(s, lit) == \E k \in 1..Len(s) : LiteralAt(s, k, lit)

\* re.search(r"\bclaude\s+d\b", s) for a digit d
ClaudeNumber(s, d) ==
    \E k \in 1..Len(s) :
        /\ WordBoundary(s, k)
        /\ LiteralAt(s, k, claude)
        /\ SpaceRun(s, k + 6) >= 1
        /\ LiteralAt(s, k + 6 + SpaceRun(s, k + 6), <<d>>)
        /\ WordBoundary(s, k + 6 + SpaceRun(s, k + 6) + 1)

\* str.title(): each letter that follows no letter upper-cased, the others
\* lower-cased
Title(s) ==
    LET letter(c) == c \in DOMAIN ToLower \/ c \in DOMAIN ToUpper
    IN  [k \in 1..Len(s) |->
            IF k = 1 \/ ~letter(s[k - 1]) THEN UpperChar(s[k])
            ELSE LowerChar(s[k])]

\* the label a family or "Claude" with a version number is rendered as
VersionLabel(word, num) == Capitalize(word) \o SP \o num

normalize_version(version_text) ==
    LET vt == Strip(Lower(version_text))
        has(k) == re_search(patterns[k], vt) # NULL
        num(a, b) == Contains(vt, Dotted(a, b)) \/ Contains(vt, Dashed(a, b))
    IN  IF has(1) THEN VersionLabel(sonnet, Dotted("4", "5"))
        ELSE IF has(2) THEN VersionLabel(sonnet, Dotted("3", "7"))
        ELSE IF has(3) THEN VersionLabel(sonnet, Dotted("3", "5"))
        ELSE IF has(4) THEN VersionLabel(opus, <<"4">>)
        ELSE IF has(5) THEN VersionLabel(opus, Dotted("3", "5"))
        ELSE IF has(6) THEN VersionLabel(haiku, Dotted("3", "5"))
        ELSE IF num("3", "7") THEN VersionLabel(claude, Dotted("3", "7"))
        ELSE IF num("3", "5") THEN VersionLabel(claude, Dotted("3", "5"))
        ELSE IF num("3", "0") \/ ClaudeNumber(vt, "3")
        THEN VersionLabel(claude, <<"3">>)
        ELSE IF num("4", "5") THEN VersionLabel(claude, Dotted("4", "5"))
        ELSE IF num("4", "0") \/ ClaudeNumber(vt, "4")
        THEN VersionLabel(claude, <<"4">>)
        ELSE IF num("2", "5") THEN VersionLabel(claude, Dotted("2", "5"))
        ELSE IF num("2", "0") \/ ClaudeNumber(vt, "2")
        THEN VersionLabel(claude, <<"2">>)
        ELSE IF Contains(vt, opus) THEN Capitalize(opus)
        ELSE IF Contains(vt, sonnet) THEN Capitalize(sonnet)
        ELSE IF Contains(vt, haiku) THEN Capitalize(haiku)
        ELSE IF Contains(vt, claude \o SP \o code)
                  \/ Contains(vt, claude \o SP \o ai)
        THEN Capitalize(claude)
        ELSE Title(vt)

\* full_text = f"{title} {text}".lower()
full_text(t, b) == Lower(t \o SP \o b)

extract_claude_version(t, b) ==
    LET ms == matches(full_text(t, b))
    IN  IF ms = <<>> THEN NULL
        ELSE normalize_version(first_sorted(ms)[2])

\* the most words a generated (title, text) pair of extract_claude_version
\* holds together
MaxVersionWords == 3

W_Opus == <<"O","p","u","s">>
W_4 == <<"4">>
W_Code == <<"C","o","d","e">>
W_Claude4 == <<"C","l","a","u","d","e","4">>

\* the words of the generated texts: "Claude", two families, two version
\* numbers, "Code", and "Claude" with its number attached
VersionWords ==
    {W_Claude, W_Sonnet, W_Opus, W_3_5, W_4, W_Code, W_Claude4}

\* every sequence of at most MaxVersionWords words, cut into title and text
\* at every place
GeneratedVersionInputs ==
    UNION { { <<Join(SubSeq(ws, 1, nk[2])),
                 Join(SubSeq(ws, nk[2] + 1, nk[1]))>> :
                ws \in [1..nk[1] -> VersionWords] } :
            nk \in {q \in (0..MaxVersionWords) \X (0..MaxVersionWords) :
                       q[2] <= q[1]} }

Test37Title ==
    <<"H","o","l","y"," ","S","H","*","T"," ","t","h","e","y"," ","c","o",
      "o","k","e","d","."," ","C","l","a","u","d","e"," ","3",".","7"," ",
      "c","o","d","e","d"," ","t","h","i","s"," ","g","a","m","e">>
TestCodeTitle ==
    <<"I","'","v","e"," ","b","e","e","n"," ","u","s","i","n","g"," ","C",
      "l","a","u","d","e"," ","C","o","d","e"," ","f","o","r"," ","m","o",
      "n","t","h","s">>
TestFirstClaudeTitle ==
    <<"C","l","a","u","d","e"," ","3",".","5"," ","v","s"," ","C","l","a",
      "u","d","e"," ","4"," ","c","o","m","p","a","r","i","s","o","n">>
TestFirstOpusTitle ==
    <<"O","p","u","s"," ","4"," ","v","s"," ","S","o","n","n","e","t"," ",
      "3",".","5">>
TestNoneTitle ==
    <<"N","o"," ","A","I"," ","m","e","n","t","i","o","n","e","d"," ","h",
      "e","r","e">>

\* titles of the tests of extract_claude_version
TestVersionInputs ==
    { <<Test37Title, <<>>>>, <<TestCodeTitle, <<>>>>,
      <<TestFirstClaudeTitle, <<>>>>, <<TestFirstOpusTitle, <<>>>>,
      <<TestNoneTitle, <<>>>> }

\* the generated pairs, the titles of the tests, and "claude" with the
\* number 3 attached
VersionInputs ==
    GeneratedVersionInputs \cup TestVersionInputs \cup {<<claude \o v3, <<>>>>}

\* a call of extract_claude_version(title, text)
ExtractVersion(p, t, b) ==
    /\ pc[p] = "idle"
    /\ title' = [title EXCEPT ![p] = t]
    /\ text' = [text EXCEPT ![p] = b]
    /\ label' = [label EXCEPT ![p] = extract_claude_version(t, b)]
    /\ pc' = [pc EXCEPT ![p] = "versioned"]
    /\ UNCHANGED <<sentences, per_sentence, mentions, i, result>>

VersionNext ==
    pc[1] = "idle" /\ \E in \in VersionInputs : ExtractVersion(1, in[1], in[2])

VersionSpec == Init /\ [][VersionNext]_vars

(***************************************************************************)
(* Properties                                                              *)
(***************************************************************************)

\* the call has returned
Done(p) == pc[p] \in {"done", "labelled"}

\* the (vendor, version, tier) of a mention
Triple(m) == <<m.vendor, m.version, m.tier>>

\* the mentions of a list, as a set
Elems(ms) == {ms[k] : k \in 1..Len(ms)}

\* the mentions a call appended by fusion: those after the per-sentence ones
Fused(p) ==
    {result[p][k] : k \in (Len(flatten(per_sentence[p])) + 1)..Len(result[p])}

RECURSIVE SeqSum(_)
SeqSum(ns) == IF ns = <<>> THEN 0 ELSE Head(ns) + SeqSum(Tail(ns))

\* C1: every returned mention whose vendor, version and tier are all
\* non-null has its triple in VALID, per-sentence and fused mentions alike.
C1_ValidTriples ==
    \A p \in Calls : Done(p) =>
        \A m \in Elems(result[p]) :
            (m.vendor # NULL /\ m.version # NULL /\ m.tier # NULL)
                => Triple(m) \in VALID

\* C1 witness: a returned list that holds a per-sentence mention and a fused
\* mention each with vendor, version and tier set.
C1_Witness ==
    /\ Done(1)
    /\ \E m \in Elems(flatten(per_sentence[1])) :
            m.vendor # NULL /\ m.version # NULL /\ m.tier # NULL
    /\ \E m \in Fused(1) :
            m.vendor # NULL /\ m.version # NULL /\ m.tier # NULL

\* C2 (as claimed): every returned mention with both version and tier set has
\* its triple in VALID, the mentions with a null vendor included.
C2_VersionTierPairsValid ==
    \A p \in Calls : Done(p) =>
        \A m \in Elems(result[p]) :
            (m.version # NULL /\ m.tier # NULL) => Triple(m) \in VALID

\* C3 (as claimed): every returned mention with a non-null vendor and a
\* version or a tier has its triple in VALID.
C3_NoTripleOutsideValid ==
    \A p \in Calls : Done(p) =>
        \A m \in Elems(result[p]) :
            (m.vendor # NULL /\ (m.version # NULL \/ m.tier # NULL))
                => Triple(m) \in VALID

\* C3 (amended): a returned mention with a non-null vendor that pairs a
\* version with a tier has its triple in VALID; what the gate drops is the
\* version, never the tier: every tier token of every sentence still has its
\* tier-anchored mention, at its position and with its tier.
C3_PairsGatedTierKept ==
    \A p \in Calls : Done(p) =>
        /\ \A m \in Elems(result[p]) :
              (m.vendor # NULL /\ m.version # NULL /\ m.tier # NULL)
                  => Triple(m) \in VALID
        /\ \A s \in 1..Len(sentences[p]) :
              LET tp == tier_pos(lowers(Split(sentences[p][s])))
              IN  \A k \in 1..Len(tp) :
                    \E m \in Elems(result[p]) :
                        /\ m.text = sentences[p][s]
                        /\ m.pass = "A"
                        /\ m.pos = tp[k][1]
                        /\ m.tier = tp[k][2]

\* C3 witness: the gate has dropped a version: a tier-anchored mention with
\* a vendor and no version beside a standalone mention of a version of the
\* same sentence that is not valid with that vendor and tier.
C3_Witness ==
    /\ Done(1)
    /\ \E m \in Elems(result[1]), v \in Elems(result[1]) :
          /\ m.pass = "A" /\ m.vendor # NULL /\ m.version = NULL
          /\ v.pass = "B" /\ v.text = m.text
          /\ <<m.vendor, v.version, m.tier>> \notin VALID

\* does the text hold a family token, a tier token or a version match
HasToken(str) ==
    \/ \E w \in Elems(lowers(Split(str))) :
          w \in (DOMAIN FAMILIES) \cup (DOMAIN TIERS)
    \/ FindVersions(str) # <<>>

\* C4: no call raises, and the list a call returns is empty when neither
\* the title nor the body holds a family, tier or version token (both empty,
\* blank or punctuation only included).
C4_NeverRaises ==
    \A p \in Calls :
        /\ pc[p] # "raised"
        /\ (Done(p) /\ ~HasToken(title[p]) /\ ~HasToken(text[p]))
              => result[p] = <<>>

\* C4 witness: a call on a title that is not empty and holds no token has
\* returned the empty list.
C4_Witness ==
    /\ Done(1)
    /\ title[1] # <<>>
    /\ ~HasToken(title[1]) /\ ~HasToken(text[1])
    /\ result[1] = <<>>

\* calls with the same arguments that have returned, returned the same list
SameArgsSameResult ==
    \A p \in Calls, q \in Calls :
        (Done(p) /\ Done(q) /\ title[p] = title[q] /\ text[p] = text[q])
            => result[p] = result[q]

\* no step changes a list that has been returned
ReturnedListKept ==
    \A p \in Calls : Done(p) => result'[p] = result[p]

\* C5: the result depends only on the arguments: calls with identical
\* (title, body), run one after the other or interleaved with other calls,
\* return identical lists in the same order, and no step of any call changes
\* a list another call has returned.
C5_DependsOnArgumentsOnly ==
    [](SameArgsSameResult) /\ [][ReturnedListKept]_vars

\* C5 witness: two calls with the same arguments have both returned the same
\* list, which holds a fused mention.
C5_Witness ==
    /\ Done(1) /\ Done(2)
    /\ title[1] = title[2] /\ text[1] = text[2]
    /\ Fused(1) # {}
    /\ result[1] = result[2]

\* the family tokens, tier tokens and version matches of all sentences
TokenCount(p) ==
    SeqSum([s \in 1..Len(sentences[p]) |->
              LET lw == lowers(Split(sentences[p][s]))
              IN  Len(fam_pos(lw)) + Len(tier_pos(lw))
                    + Len(FindVersions(sentences[p][s]))])

\* the fusions of adjacent sentences whose triple is in VALID
AcceptedFusions(p) ==
    SeqSum([s \in 1..(Len(per_sentence[p]) - 1) |->
              LET cs == combine_calls(per_sentence[p][s], per_sentence[p][s + 1])
              IN  Cardinality({k \in 1..Len(cs) :
                                 <<cs[k][1], cs[k][2], cs[k][3]>> \in VALID})])

\* C6: the number of returned mentions is at most the number of family
\* tokens plus tier tokens plus version matches plus accepted fusions.
C6_LengthBound ==
    \A p \in Calls : Done(p) =>
        Len(result[p]) <= TokenCount(p) + AcceptedFusions(p)

\* C6 witness: a returned list with a fused mention that reaches the bound.
C6_Witness ==
    /\ Done(1)
    /\ Fused(1) # {}
    /\ Len(result[1]) = TokenCount(1) + AcceptedFusions(1)

\* C7 (as claimed): every returned mention with confidence "high" has a
\* vendor resolved from a family token (not from the tier's default vendor
\* or the shape of the version) and a version or a tier; a fused mention
\* built from partial mentions without such a vendor is not "high".
C7_HighOnlyViaFamily ==
    \A p \in Calls : Done(p) =>
        \A m \in Elems(result[p]) :
            m.confidence = high =>
                /\ m.vendor # NULL
                /\ m.via = "family"
                /\ (m.version # NULL \/ m.tier # NULL)

\* the triples adjacent sentences offer for fusion: a mention with a vendor
\* and a version but no tier in one, a mention of the same vendor with a
\* tier but no version in the other, in either order
OfferedTriples(curr, nxt) ==
    { <<q[1].vendor, q[1].version, q[2].tier>> :
        q \in { r \in Elems(curr) \X Elems(nxt) :
                  /\ r[1].vendor # NULL /\ r[1].version # NULL
                  /\ r[1].tier = NULL
                  /\ r[2].vendor = r[1].vendor /\ r[2].tier # NULL
                  /\ r[2].version = NULL } }
    \cup
    { <<q[1].vendor, q[2].version, q[1].tier>> :
        q \in { r \in Elems(curr) \X Elems(nxt) :
                  /\ r[1].vendor # NULL /\ r[1].tier # NULL
                  /\ r[1].version = NULL
                  /\ r[2].vendor = r[1].vendor /\ r[2].version # NULL
                  /\ r[2].tier = NULL } }

\* those of them that are in VALID, over all adjacent sentences of a call
FusibleTriples(p) ==
    UNION { OfferedTriples(per_sentence[p][s], per_sentence[p][s + 1]) \cap VALID :
            s \in 1..(Len(per_sentence[p]) - 1) }

\* C8: when adjacent sentences yield a version-only and a tier-only mention
\* of the same vendor, in either order, and the triple is in VALID, the
\* returned list holds a mention with that triple; every mention appended by
\* fusion has confidence "high" and as text the two sentences joined by a
\* space; the documented title and body give (anthropic, 3.5, sonnet, high).
C8_AdjacentFusion ==
    \A p \in Calls : Done(p) =>
        /\ \A tr \in FusibleTriples(p) :
              \E m \in Elems(result[p]) : Triple(m) = tr
        /\ \A m \in Fused(p) :
              /\ m.confidence = high
              /\ \E s \in 1..(Len(sentences[p]) - 1) :
                    m.text = sentences[p][s] \o SP \o sentences[p][s + 1]
        /\ (title[p] = FusionTitle /\ text[p] = FusionBody) =>
              \E m \in Elems(result[p]) :
                  /\ Triple(m) = <<anthropic, v3_5, sonnet>>
                  /\ m.confidence = high

\* C8 witness: the call on the documented title and body has returned a
\* fused mention.
C8_Witness ==
    /\ Done(1)
    /\ title[1] = FusionTitle /\ text[1] = FusionBody
    /\ Fused(1) # {}

\* C9 (as claimed): for the documented title and body, best_model_label of
\* the returned list is "Claude 3.5 Sonnet".
C9_FusedLabelWins ==
    \A p \in Calls :
        (pc[p] = "labelled" /\ title[p] = FusionTitle /\ text[p] = FusionBody)
            => Str(label[p]) = "Claude 3.5 Sonnet"

\* the maximal runs of digits and dots of a string, dots at the ends dropped
NumberRuns(str) ==
    LET num(k) == k >= 1 /\ k <= Len(str) /\ str[k] \in DigitChars \cup {"."}
    IN  { StripChars(SubSeq(str, q[1], q[2]), {"."}) :
            q \in { r \in (1..Len(str)) \X (1..Len(str)) :
                      /\ r[1] <= r[2]
                      /\ \A k \in r[1]..r[2] : num(k)
                      /\ ~num(r[1] - 1) /\ ~num(r[2] + 1)
                      /\ \E k \in r[1]..r[2] : str[k] \in DigitChars } }

\* the recognised version tokens
RecognisedVersions == {v3, v3_5, v4, v4_1, v4_5, o3, o4, o3_mini}

\* every number of the text is outside the recognised version tokens
OnlyUnrecognisedNumbers(str) ==
    /\ NumberRuns(str) \cap RecognisedVersions = {}
    /\ \A k \in 1..(Len(str) - 1) :
          ~(LowerChar(str[k]) = "o" /\ str[k + 1] \in DigitChars)

\* C10 (as claimed): a text whose numbers are all outside the recognised
\* version tokens yields no mention with a version and no label with a
\* number in it.
C10_OnlyRecognisedVersions ==
    \A p \in Calls :
        (Done(p) /\ OnlyUnrecognisedNumbers(title[p])
                 /\ OnlyUnrecognisedNumbers(text[p])) =>
            \A m \in Elems(result[p]) :
                /\ m.version = NULL
                /\ \A k \in 1..Len(fmt(m)) : fmt(m)[k] \notin DigitChars

\* is there a family token within the window of token position pos
FamilyWithin(lw, pos) ==
    \E k \in 1..Len(lw) :
        lw[k] \in DOMAIN FAMILIES /\ Abs((k - 1) - pos) <= window

\* is there a version match within the window of token position pos
VersionWithin(sent, pos) ==
    LET vp == ver_pos(Split(sent), sent)
    IN  \E k \in 1..Len(vp) : Abs(vp[k][1] - pos) <= window

\* the tier-anchored mentions a call returned for a position of a sentence
PassAAt(p, s, pos) ==
    {m \in Elems(per_sentence[p][s]) \cap Elems(result[p]) :
        m.pass = "A" /\ m.pos = pos /\ m.text = sentences[p][s]}

\* C11: a tier token "pro" with no family token and no version match within
\* the window yields for its position a mention with vendor, family and
\* version null, tier "pro" and confidence "low", and best_model_label of
\* that single mention is "Pro".
C11_ProTierLow ==
    \A p \in Calls : Done(p) =>
        \A s \in 1..Len(sentences[p]) :
            LET sent == sentences[p][s]
                lw == lowers(Split(sent))
            IN  \A k \in 1..Len(lw) :
                    (/\ lw[k] = pro
                     /\ ~FamilyWithin(lw, k - 1)
                     /\ ~VersionWithin(sent, k - 1))
                    => \E m \in PassAAt(p, s, k - 1) :
                          /\ m.vendor = NULL /\ m.family = NULL
                          /\ m.version = NULL /\ m.tier = pro
                          /\ m.confidence = low
                          /\ Str(best_model_label(<<m>>)) = "Pro"

\* C11 witness: the call on a sentence whose family token and version lie
\* beyond the window of its "pro" has returned the low-confidence mention.
C11_Witness ==
    /\ Done(1)
    /\ title[1] = FarTitle
    /\ \E m \in Elems(result[1]) :
          m.tier = pro /\ m.vendor = NULL /\ m.confidence = low

\* does the mention format to a label other than "Unknown"
Labelled(m) == fmt(m) # Unknown

\* C12: best_model_label never returns "Unknown"; it returns null exactly
\* when the list is empty or every mention of it formats to "Unknown".
C12_NullIffAllUnknown ==
    \A p \in Calls : pc[p] = "labelled" =>
        /\ label[p] # Unknown
        /\ (label[p] = NULL) <=>
              (result[p] = <<>> \/ \A m \in Elems(result[p]) : ~Labelled(m))

\* C12 witness: a list that is not empty and whose mentions all format to
\* "Unknown" has been rendered as null, its first mention being "high".
C12_Witness ==
    /\ pc[1] = "labelled"
    /\ result[1] # <<>>
    /\ \A m \in Elems(result[1]) : ~Labelled(m)
    /\ result[1][1].confidence = high
    /\ label[1] = NULL

\* the rank of a confidence: high before medium before low
Rank(c) == IF c = high THEN 0 ELSE IF c = medium THEN 1 ELSE 2

\* the index of the mention the label comes from: of best rank among the
\* mentions that do not format to "Unknown", the first of them in the list
Winner(ms) ==
    CHOOSE k \in 1..Len(ms) :
        /\ Labelled(ms[k])
        /\ \A j \in 1..Len(ms) : Labelled(ms[j]) =>
              \/ Rank(ms[k].confidence) < Rank(ms[j].confidence)
              \/ Rank(ms[k].confidence) = Rank(ms[j].confidence) /\ k <= j

\* the label is that of the winner
LabelOfWinner ==
    \A p \in Calls :
        (pc[p] = "labelled" /\ \E m \in Elems(result[p]) : Labelled(m))
            => label[p] = fmt(result[p][Winner(result[p])])

\* rendering leaves the list as it was
ListKeptByLabel ==
    \A p \in Calls :
        (pc[p] = "done" /\ pc'[p] = "labelled") => result'[p] = result[p]

\* C13: best_model_label returns the label of the mention of best confidence
\* rank among those not formatting to "Unknown", the first in the list among
\* equal ranks, and leaves the list in its original order.
C13_BestRankFirstWins ==
    [](LabelOfWinner) /\ [][ListKeptByLabel]_vars

\* C13 witness: the label comes from the second mention of a list whose
\* first mention has a label of its own and a worse rank.
C13_Witness ==
    /\ pc[1] = "labelled"
    /\ Len(result[1]) = 2
    /\ Labelled(result[1][1]) /\ Labelled(result[1][2])
    /\ Rank(result[1][2].confidence) < Rank(result[1][1].confidence)
    /\ fmt(result[1][1]) # fmt(result[1][2])
    /\ label[1] = fmt(result[1][2])

\* the sequences of a sequence, one after the other
RECURSIVE Concat(_)
Concat(seqs) == IF seqs = <<>> THEN <<>> ELSE Head(seqs) \o Concat(Tail(seqs))

\* the pairs (m1, m2) of two lists, m1 outermost
PairsInOrder(curr, nxt) ==
    Concat([a \in 1..Len(curr) |-> [b \in 1..Len(nxt) |-> <<curr[a], nxt[b]>>]])

\* the triples the scan of one adjacent pair of sentences offers, in order:
\* version in the first and tier in the second, then tier in the first and
\* version in the second
ScanOfPair(curr, nxt) ==
    LET ps == PairsInOrder(curr, nxt)
        vt == SelectSeq(ps, LAMBDA q :
                /\ q[1].vendor # NULL /\ q[1].version # NULL /\ q[1].tier = NULL
                /\ q[2].vendor = q[1].vendor /\ q[2].tier # NULL
                /\ q[2].version = NULL)
        tv == SelectSeq(ps, LAMBDA q :
                /\ q[1].vendor # NULL /\ q[1].tier # NULL /\ q[1].version = NULL
                /\ q[2].vendor = q[1].vendor /\ q[2].version # NULL
                /\ q[2].tier = NULL)
    IN  [k \in 1..Len(vt) |-> <<vt[k][1].vendor, vt[k][1].version, vt[k][2].tier>>]
        \o [k \in 1..Len(tv) |-> <<tv[k][1].vendor, tv[k][2].version, tv[k][1].tier>>]

\* the triples the whole adjacent-pair scan offers, in order
ScanOrder(p) ==
    Concat([s \in 1..(Len(per_sentence[p]) - 1) |->
                ScanOfPair(per_sentence[p][s], per_sentence[p][s + 1])])

\* the first index of x in a sequence that holds it
FirstAt(seq, x) ==
    CHOOSE k \in 1..Len(seq) : seq[k] = x /\ \A j \in 1..(k - 1) : seq[j] # x

\* Pass A before Pass B before Pass C
PassOrder(ps) == IF ps = "A" THEN 1 ELSE IF ps = "B" THEN 2 ELSE 3

\* C14: the returned list is the per-sentence mentions in sentence order,
\* within each sentence the tier-anchored mentions in tier-position order,
\* then the standalone versions, then the bare families; the fused mentions
\* come after all of them, in the order the adjacent-pair scan finds them.
C14_ReturnedOrder ==
    \A p \in Calls : Done(p) =>
        LET flat == Concat(per_sentence[p])
            n == Len(flat)
            r == result[p]
            scan == ScanOrder(p)
        IN  /\ Len(r) >= n
            /\ SubSeq(r, 1, n) = flat
            /\ \A s \in 1..Len(per_sentence[p]) :
                  LET ps == per_sentence[p][s]
                      tp == tier_pos(lowers(Split(sentences[p][s])))
                  IN  /\ \A a \in 1..Len(ps) : ps[a].pass \in {"A", "B", "C"}
                      /\ \A a \in 1..Len(ps), b \in 1..Len(ps) :
                            a < b => PassOrder(ps[a].pass) <= PassOrder(ps[b].pass)
                      /\ Cardinality({a \in 1..Len(ps) : ps[a].pass = "A"})
                            = Len(tp)
                      /\ \A k \in 1..Len(tp) :
                            ps[k].pos = tp[k][1] /\ ps[k].tier = tp[k][2]
            /\ \A k \in (n + 1)..Len(r) :
                  r[k].pass = "F" /\ \E j \in 1..Len(scan) : scan[j] = Triple(r[k])
            /\ \A a \in (n + 1)..Len(r), b \in (n + 1)..Len(r) :
                  a < b => FirstAt(scan, Triple(r[a])) < FirstAt(scan, Triple(r[b]))

\* C14 witness: a returned list with two fused mentions, one of each scan
\* of the same pair of sentences, after tier-anchored and standalone-version
\* mentions.
C14_Witness ==
    /\ Done(1)
    /\ title[1] = TwoScansTitle /\ text[1] = TwoScansBody
    /\ Cardinality(Fused(1)) = 2
    /\ result[1][1].pass = "A" /\ result[1][2].pass = "B"

\* every match of every pattern in the text: (start, index of the pattern)
AllMatches(full) ==
    {q \in (0..(Len(full) - 1)) \X (1..Len(patterns)) :
        PatMatchLenAt(patterns[q[2]], full, q[1] + 1) > 0}

\* the match that starts earliest, the pattern listed first among those
\* that start there
EarliestMatch(all) ==
    CHOOSE q \in all :
        \A r \in all : q[1] < r[1] \/ (q[1] = r[1] /\ q[2] <= r[2])

\* the text of a match
MatchText(full, q) ==
    SubSeq(full, q[1] + 1, q[1] + PatMatchLenAt(patterns[q[2]], full, q[1] + 1))

\* C15: extract_claude_version returns None exactly when no pattern matches
\* the lower-cased "title text"; otherwise normalize_version of the match
\* that starts earliest, the pattern listed first winning a tie on the
\* start; "Claude 3.5 vs Claude 4 comparison" gives "Claude 3.5" and
\* "Opus 4 vs Sonnet 3.5" gives "Opus 4".
C15_EarliestMatchWins ==
    \A p \in Calls : pc[p] = "versioned" =>
        LET full == Lower(title[p] \o SP \o text[p])
            all == AllMatches(full)
        IN  /\ (label[p] = NULL) <=> (all = {})
            /\ all # {} =>
                  label[p] = normalize_version(MatchText(full, EarliestMatch(all)))
            /\ (title[p] = TestFirstClaudeTitle /\ text[p] = <<>>)
                  => Str(label[p]) = "Claude 3.5"
            /\ (title[p] = TestFirstOpusTitle /\ text[p] = <<>>)
                  => Str(label[p]) = "Opus 4"

\* C15 witness: "Opus 4 vs Sonnet 3.5", where the pattern listed first
\* matches later in the text, has given "Opus 4".
C15_Witness ==
    /\ pc[1] = "versioned"
    /\ title[1] = TestFirstOpusTitle /\ text[1] = <<>>
    /\ re_search(patterns[3], full_text(title[1], text[1])) # NULL
    /\ Str(label[1]) = "Opus 4"

\* C16 (as claimed): whenever extract_claude_version(title, "") is not None,
\* extract_claude_version(title, text) is that same value for every text.
C16_TitleMatchKept ==
    \A p \in Calls :
        (pc[p] = "versioned" /\ extract_claude_version(title[p], <<>>) # NULL)
            => label[p] = extract_claude_version(title[p], <<>>)

\* the labels without a version number
GenericLabels ==
    {Capitalize(sonnet), Capitalize(opus), Capitalize(haiku), Capitalize(claude)}

\* does a pattern of a family or "claude" followed by a version number match
HasVersionedMatch(full) ==
    \E k \in 1..13 : re_search(patterns[k], full) # NULL

\* C17 (as claimed): whenever the title and text together hold a match of a
\* versioned pattern, the result is a versioned label, none of "Sonnet",
\* "Opus", "Haiku" and "Claude".
C17_MostSpecificWins ==
    \A p \in Calls :
        (pc[p] = "versioned" /\ HasVersionedMatch(full_text(title[p], text[p])))
            => (label[p] # NULL /\ label[p] \notin GenericLabels)

\* the tier-anchored mentions of a call, each with the lower-cased tokens of
\* its sentence: <<mention, tokens>>
PassAMentions(p) ==
    UNION { { <<m, lowers(Split(sentences[p][s]))>> :
                m \in {x \in Elems(per_sentence[p][s]) : x.pass = "A"} } :
            s \in 1..Len(per_sentence[p]) }

\* C18 (as claimed): a tier-anchored mention is "high" exactly when a family
\* was found within the window and it has a version, "medium" exactly when
\* a family or a vendor was found and it has no version, "low" otherwise;
\* so a "medium" one has no version.
C18_PassAConfidence ==
    \A p \in Calls : Done(p) =>
        \A q \in PassAMentions(p) :
            LET m == q[1]
                fw == FamilyWithin(q[2], m.pos)
                isHigh == fw /\ m.version # NULL
                isMedium == (fw \/ m.vendor # NULL) /\ m.version = NULL
            IN  /\ (m.confidence = high) <=> isHigh
                /\ (m.confidence = medium) <=> isMedium
                /\ (m.confidence = low) <=> (~isHigh /\ ~isMedium)

\* C18 (amended): "high" exactly when a family was found within the window
\* and the mention has a version; "medium" exactly when it is not "high"
\* and a family or a vendor was found, whether or not it has a version;
\* "low" exactly when neither a family nor a vendor was found.
C18_PassAConfidenceByFamily ==
    \A p \in Calls : Done(p) =>
        \A q \in PassAMentions(p) :
            LET m == q[1]
                fw == FamilyWithin(q[2], m.pos)
                isHigh == fw /\ m.version # NULL
            IN  /\ (m.confidence = high) <=> isHigh
                /\ (m.confidence = medium) <=>
                      (~isHigh /\ (fw \/ m.vendor # NULL))
                /\ (m.confidence = low) <=> (~fw /\ m.vendor = NULL)

\* C18 witness: a tier-anchored mention with the tier's default vendor, no
\* family within the window and a version that passed the gate is "medium".
C18_Witness ==
    /\ Done(1)
    /\ \E q \in PassAMentions(1) :
          /\ ~FamilyWithin(q[2], q[1].pos)
          /\ q[1].vendor # NULL /\ q[1].version # NULL
          /\ q[1].confidence = medium

\* the family token nearest to a position, the first of those at the least
\* distance: its index among the tokens
NearestFamilyIndex(lw, pos) ==
    CHOOSE k \in 1..Len(lw) :
        /\ lw[k] \in DOMAIN FAMILIES
        /\ \A j \in 1..Len(lw) : lw[j] \in DOMAIN FAMILIES =>
              \/ Abs((k - 1) - pos) < Abs((j - 1) - pos)
              \/ Abs((k - 1) - pos) = Abs((j - 1) - pos) /\ k <= j

\* the vendor a tier position resolves to: that of the family within the
\* window, else the tier's own
ResolvedVendor(lw, pos, tier) ==
    IF FamilyWithin(lw, pos) THEN FAMILIES[lw[NearestFamilyIndex(lw, pos)]]
    ELSE TIERS[tier]

\* the family a tier position resolves to: the family token within the
\* window, else the canonical family of the vendor, if any
ResolvedFamily(lw, pos, tier) ==
    IF FamilyWithin(lw, pos) THEN lw[NearestFamilyIndex(lw, pos)]
    ELSE IF TIERS[tier] = NULL THEN NULL
    ELSE VENDOR_TO_FAMILY[TIERS[tier]]

\* the version match nearest to a position, if within the window
VersionNear(sent, pos) == nearest_version(ver_pos(Split(sent), sent), pos, window)

\* does the validity gate fail at tier position (pos, tier) of a sentence
GateFails(sent, pos, tier) ==
    LET lw == lowers(Split(sent))
    IN  /\ ResolvedVendor(lw, pos, tier) # NULL
        /\ VersionNear(sent, pos) # NULL
        /\ <<ResolvedVendor(lw, pos, tier), VersionNear(sent, pos), tier>>
              \notin VALID

\* C19: when the vendor and the nearest version of a tier position are both
\* known and (vendor, version, tier) is not in VALID, exactly one mention is
\* emitted for the position, with a null version and with the tier, vendor
\* and family unchanged.
C19_GateClearsVersionOnly ==
    \A p \in Calls : Done(p) =>
        \A s \in 1..Len(sentences[p]) :
            LET sent == sentences[p][s]
                lw == lowers(Split(sent))
                tp == tier_pos(lw)
                ps == per_sentence[p][s]
            IN  \A k \in 1..Len(tp) :
                    GateFails(sent, tp[k][1], tp[k][2]) =>
                        /\ Cardinality({a \in 1..Len(ps) :
                                ps[a].pass = "A" /\ ps[a].pos = tp[k][1]}) = 1
                        /\ \A a \in 1..Len(ps) :
                              (ps[a].pass = "A" /\ ps[a].pos = tp[k][1]) =>
                                  /\ ps[a].version = NULL
                                  /\ ps[a].tier = tp[k][2]
                                  /\ ps[a].vendor = ResolvedVendor(lw, tp[k][1], tp[k][2])
                                  /\ ps[a].family = ResolvedFamily(lw, tp[k][1], tp[k][2])
                                  /\ ps[a] \in Elems(result[p])

\* C19 witness: the gate has failed at a tier position whose vendor came
\* from a family token other than the tier's own vendor.
C19_Witness ==
    /\ Done(1)
    /\ \E s \in 1..Len(sentences[1]) :
          LET lw == lowers(Split(sentences[1][s]))
              tp == tier_pos(lw)
          IN  \E k \in 1..Len(tp) :
                  /\ GateFails(sentences[1][s], tp[k][1], tp[k][2])
                  /\ FamilyWithin(lw, tp[k][1])
                  /\ ResolvedVendor(lw, tp[k][1], tp[k][2]) # TIERS[tp[k][2]]

\* C20: a tier-anchored mention takes the vendor and the family token of the
\* family within the window of its position, even when the tier's own
\* vendor differs; without one, the vendor is TIERS[tier] and the family
\* VENDOR_TO_FAMILY[vendor], null when the vendor is null.
C20_PassAVendorFamily ==
    \A p \in Calls : Done(p) =>
        \A q \in PassAMentions(p) :
            /\ q[1].vendor = ResolvedVendor(q[2], q[1].pos, q[1].tier)
            /\ q[1].family = ResolvedFamily(q[2], q[1].pos, q[1].tier)

\* C20 witness: a "sonnet" exactly window tokens after "GPT" has the vendor
\* openai and the family gpt.
C20_Witness ==
    /\ Done(1)
    /\ title[1] = NearTitle
    /\ \E q \in PassAMentions(1) :
          /\ q[1].tier = sonnet /\ q[1].pos = window
          /\ q[1].vendor = openai /\ q[1].family = gpt

\* the mentions of one pass in a sentence's list, in order
OfPass(ps, pass) == SelectSeq(ps, LAMBDA m : m.pass = pass)

\* the versions of the tier-anchored mentions of a sentence's list
PassAVersions(ps) ==
    {m.version : m \in {x \in Elems(ps) : x.pass = "A" /\ x.version # NULL}}

\* C21: within a sentence, Pass B emits exactly one standalone-version
\* mention, with a null tier, for each version position whose version is not
\* the version of any Pass A mention of that sentence, and none for the
\* others; "4.5 and Sonnet are both fast." yields a "4.5" mention and a
\* Sonnet mention without a version.
C21_PassBPerPosition ==
    \A p \in Calls : Done(p) =>
        /\ \A s \in 1..Len(sentences[p]) :
              LET sent == sentences[p][s]
                  ps == per_sentence[p][s]
                  vp == ver_pos(Split(sent), sent)
                  left == SelectSeq(vp, LAMBDA q : q[2] \notin PassAVersions(ps))
                  bs == OfPass(ps, "B")
              IN  /\ Len(bs) = Len(left)
                  /\ \A k \in 1..Len(bs) :
                        /\ bs[k].pos = left[k][1]
                        /\ bs[k].version = left[k][2]
                        /\ bs[k].tier = NULL
                        /\ bs[k] \in Elems(result[p])
        /\ (title[p] = BothFastTitle /\ text[p] = <<>>) =>
              /\ \E m \in Elems(result[p]) : m.version = v4_5 /\ m.tier = NULL
              /\ \E m \in Elems(result[p]) : m.tier = sonnet /\ m.version = NULL

\* C21 witness: the call on "4.5 and Sonnet are both fast." has returned the
\* standalone "4.5" that the gate dropped from the Sonnet mention.
C21_Witness ==
    /\ Done(1)
    /\ title[1] = BothFastTitle
    /\ \E a \in Elems(result[1]), b \in Elems(result[1]) :
          /\ a.pass = "A" /\ a.tier = sonnet /\ a.version = NULL
          /\ b.pass = "B" /\ b.version = v4_5 /\ b.text = a.text

\* the standalone-version mentions of a call, each with the lower-cased
\* tokens of its sentence: <<mention, tokens>>
PassBMentions(p) ==
    UNION { { <<m, lowers(Split(sentences[p][s]))>> :
                m \in {x \in Elems(per_sentence[p][s]) : x.pass = "B"} } :
            s \in 1..Len(per_sentence[p]) }

\* C22: a standalone-version mention with a family token within the window
\* has that family's vendor and family and confidence "high"; without one,
\* its vendor is openai when the version starts with "4" or "o" and
\* anthropic when it starts with "3", its family VENDOR_TO_FAMILY[vendor]
\* and its confidence "medium"; "I use GPT-4.5 sometimes, but Sonnet feels
\* faster." yields (openai, "4.5") rendered "GPT-4.5" and (anthropic, tier
\* sonnet) rendered "Claude Sonnet".
C22_PassBVendorConfidence ==
    \A p \in Calls : Done(p) =>
        /\ \A q \in PassBMentions(p) :
              LET m == q[1]
                  lw == q[2]
              IN  IF FamilyWithin(lw, m.pos)
                  THEN /\ m.family = lw[NearestFamilyIndex(lw, m.pos)]
                       /\ m.vendor = FAMILIES[m.family]
                       /\ m.confidence = high
                  ELSE /\ (m.version[1] \in {"4", "o"}) => m.vendor = openai
                       /\ (m.version[1] = "3") => m.vendor = anthropic
                       /\ m.vendor \in {openai, anthropic}
                       /\ m.family = VENDOR_TO_FAMILY[m.vendor]
                       /\ m.confidence = medium
        /\ (title[p] = MixedTitle /\ text[p] = <<>>) =>
              /\ \E m \in Elems(result[p]) :
                    /\ m.vendor = openai /\ m.version = v4_5
                    /\ Str(best_model_label(<<m>>)) = "GPT-4.5"
              /\ \E m \in Elems(result[p]) :
                    /\ m.vendor = anthropic /\ m.tier = sonnet
                    /\ Str(best_model_label(<<m>>)) = "Claude Sonnet"

\* C22 witness: the call on "I use GPT-4.5 sometimes, but Sonnet feels
\* faster." has returned a standalone "4.5" whose vendor was guessed from
\* its shape, no family token being in the sentence.
C22_Witness ==
    /\ Done(1)
    /\ title[1] = MixedTitle
    /\ \E q \in PassBMentions(1) :
          /\ ~FamilyWithin(q[2], q[1].pos)
          /\ q[1].version = v4_5 /\ q[1].vendor = openai
          /\ q[1].confidence = medium

\* the vendors of the family tokens of a sentence
FamilyVendors(lw) ==
    {FAMILIES[lw[k]] : k \in {j \in 1..Len(lw) : lw[j] \in DOMAIN FAMILIES}}

\* C23: for every sentence and every vendor of a family token in it, the
\* output holds a mention with that vendor; a bare mention (version and tier
\* null, confidence "medium") of a vendor is emitted only when no Pass A or
\* Pass B mention of the sentence has that vendor, and at most one per
\* vendor and sentence, however many family tokens of the vendor occur.
C23_BareFamilyPerVendor ==
    \A p \in Calls : Done(p) =>
        \A s \in 1..Len(sentences[p]) :
            LET lw == lowers(Split(sentences[p][s]))
                ps == per_sentence[p][s]
                cs == OfPass(ps, "C")
            IN  /\ \A vd \in FamilyVendors(lw) :
                      \E m \in Elems(ps) \cap Elems(result[p]) : m.vendor = vd
                /\ \A k \in 1..Len(cs) :
                      /\ cs[k].version = NULL /\ cs[k].tier = NULL
                      /\ cs[k].confidence = medium
                      /\ cs[k].vendor \in FamilyVendors(lw)
                      /\ \A m \in Elems(ps) :
                            m.pass \in {"A", "B"} => m.vendor # cs[k].vendor
                      /\ \A j \in 1..Len(cs) :
                            cs[j].vendor = cs[k].vendor => j = k

\* C23 witness: a sentence with two family tokens of one vendor has exactly
\* one bare mention of that vendor.
C23_Witness ==
    /\ Done(1)
    /\ \E s \in 1..Len(sentences[1]) :
          LET lw == lowers(Split(sentences[1][s]))
              ps == per_sentence[1][s]
          IN  \E vd \in FamilyVendors(lw) :
                  /\ Cardinality({k \in 1..Len(lw) :
                        lw[k] \in DOMAIN FAMILIES /\ FAMILIES[lw[k]] = vd}) = 2
                  /\ Len(SelectSeq(OfPass(ps, "C"), LAMBDA m : m.vendor = vd)) = 1

\* the positions (token indices) of the family tokens of a sentence
FamilyIndices(lw) == {k - 1 : k \in {j \in 1..Len(lw) : lw[j] \in DOMAIN FAMILIES}}

\* of a set of token indices, the one nearest to pos, the earlier of two at
\* the same distance; -1 if the set is empty or the nearest is more than 12
\* tokens away
NearestWithin12(indices, pos) ==
    IF indices = {} THEN 0 - 1
    ELSE LET n == CHOOSE a \in indices :
                    \A b \in indices :
                        \/ Abs(a - pos) < Abs(b - pos)
                        \/ Abs(a - pos) = Abs(b - pos) /\ a <= b
         IN  IF Abs(n - pos) <= 12 THEN n ELSE 0 - 1

\* the version a tier position takes: that of the first version match in
\* the token nearest_v, kept when the vendor is unknown or the triple valid
VersionTaken(sent, nearest_v, vendor, tier) ==
    LET vp == ver_pos(Split(sent), sent)
    IN  IF nearest_v < 0 THEN NULL
        ELSE LET k == CHOOSE a \in 1..Len(vp) :
                        vp[a][1] = nearest_v /\ \A b \in 1..(a - 1) : vp[b][1] # nearest_v
             IN  IF vendor # NULL /\ <<vendor, vp[k][2], tier>> \notin VALID
                 THEN NULL
                 ELSE vp[k][2]

\* C24: a tier or version position is associated with a family token only
\* if that token is the family token at the least token distance, the
\* earlier of two at the same distance, and the distance is at most 12: at
\* 12 it is used, at 13 or more none is; the nearest version of a tier
\* position is taken under the same inclusive bound of 12 tokens.
C24_WindowInclusive ==
    \A p \in Calls : Done(p) =>
        \A s \in 1..Len(sentences[p]) :
            LET sent == sentences[p][s]
                lw == lowers(Split(sent))
                vp == ver_pos(Split(sent), sent)
            IN  \A m \in Elems(per_sentence[p][s]) :
                    m.pass \in {"A", "B"} =>
                        LET f == NearestWithin12(FamilyIndices(lw), m.pos)
                            v == NearestWithin12({vp[k][1] : k \in 1..Len(vp)}, m.pos)
                        IN  /\ (m.via = "family") <=> (f >= 0)
                            /\ f >= 0 => /\ m.family = lw[f + 1]
                                         /\ m.vendor = FAMILIES[lw[f + 1]]
                            /\ m.pass = "A" =>
                                  m.version = VersionTaken(sent, v, m.vendor, m.tier)

\* C24 witness: a version exactly 12 tokens after "Claude" has taken its
\* vendor and family.
C24_Witness ==
    /\ Done(1)
    /\ title[1] = Apart(W_Claude, 12, W_4_5)
    /\ \E m \in Elems(result[1]) :
          /\ m.pass = "B" /\ m.pos = 12 /\ m.via = "family"
          /\ m.vendor = anthropic /\ m.family = claude /\ m.version = v4_5

\* the triples the scan offers that are in VALID and that a per-sentence
\* mention of the call already has
OfferedButPresent(p) ==
    {tr \in FusibleTriples(p) :
        \E m \in Elems(flatten(per_sentence[p])) : Triple(m) = tr}

\* C25: a fused mention is appended only if its triple is in VALID and no
\* mention already in the list has the same triple: no fused mention repeats
\* the triple of a mention before it in the returned list, per-sentence or
\* fused, and no two fused mentions share a triple.
C25_FusedTripleNew ==
    \A p \in Calls : Done(p) =>
        LET r == result[p]
            n == Len(flatten(per_sentence[p]))
        IN  \A k \in (n + 1)..Len(r) :
                /\ Triple(r[k]) \in VALID
                /\ \A j \in 1..(k - 1) : Triple(r[j]) # Triple(r[k])
                /\ \A j \in (n + 1)..Len(r) :
                      Triple(r[j]) = Triple(r[k]) => j = k

\* C25 witness: the scan has offered a valid triple that a per-sentence
\* mention already had, and no fused mention was appended.
C25_Witness ==
    /\ Done(1)
    /\ OfferedButPresent(1) # {}
    /\ Fused(1) = {}

\* the valid triples that sentences two or more apart would offer
DistantTriples(p) ==
    UNION { OfferedTriples(per_sentence[p][q[1]], per_sentence[p][q[2]]) \cap VALID :
            q \in {r \in (1..Len(per_sentence[p])) \X (1..Len(per_sentence[p])) :
                      r[2] >= r[1] + 2} }

\* C26: fusion combines only partial mentions of index-adjacent sentences:
\* every fused mention has the triple offered by two per-sentence mentions
\* of sentences i and i+1 and as text those two sentences, so a version-only
\* mention and a tier-only mention two or more sentences apart are never
\* fused, and no fused mention is an input of a further fusion.
C26_AdjacentOnly ==
    \A p \in Calls : Done(p) =>
        \A m \in Fused(p) :
            \E s \in 1..(Len(per_sentence[p]) - 1) :
                /\ Triple(m) \in
                      OfferedTriples(per_sentence[p][s], per_sentence[p][s + 1])
                /\ m.text = sentences[p][s] \o SP \o sentences[p][s + 1]

\* C26 witness: a version-only and a tier-only mention of one vendor lie two
\* sentences apart, their triple is in VALID, and the returned list has no
\* mention with it.
C26_Witness ==
    /\ Done(1)
    /\ \E tr \in DistantTriples(1) :
          \A m \in Elems(result[1]) : Triple(m) # tr

\* the index of the whitespace-delimited token that holds the character at
\* offset c of a sentence: the tokens that start at or before it, less one
TokenHolding(sent, c) ==
    Cardinality({k \in 1..(c + 1) :
                    ~IsSpace(sent[k]) /\ (k = 1 \/ IsSpace(sent[k - 1]))}) - 1

\* C27 (as claimed): the token index assigned to every version match of
\* every sentence is the index of the whitespace-delimited token that holds
\* the first character of the match, sentences whose tokens are separated
\* by more than one whitespace character included.
C27_TokenOfMatch ==
    \A p \in Calls : Done(p) =>
        \A s \in 1..Len(sentences[p]) :
            LET sent == sentences[p][s]
                cs == ver_pos_chars(sent)
                vp == ver_pos(Split(sent), sent)
            IN  \A k \in 1..Len(cs) : vp[k][1] = TokenHolding(sent, cs[k][1])

\* the versions, tiers and vendors of the rendered mentions as they are
\* written in a label: upper-cased and capitalized
UpperCased == (o3 :> "O3") @@ (v3_5 :> "3.5")
Capitalized == (pro :> "Pro") @@ (google :> "Google")

\* the version of an anthropic label: upper-cased when it starts with "o"
ClaudeVersion(v) == IF v[1] = "o" THEN UpperCased[v] ELSE Str(v)

\* the label the per-vendor rules give a mention
RuleLabel(m) ==
    IF m.vendor = anthropic
    THEN IF m.version # NULL /\ m.tier # NULL
         THEN "Claude " \o ClaudeVersion(m.version) \o " " \o Capitalized[m.tier]
         ELSE IF m.tier # NULL THEN "Claude " \o Capitalized[m.tier]
         ELSE IF m.version # NULL THEN "Claude " \o ClaudeVersion(m.version)
         ELSE "Claude"
    ELSE IF m.vendor = openai
    THEN IF m.version = NULL THEN "OpenAI"
         ELSE IF m.version[1] = "o" THEN UpperCased[m.version]
         ELSE "GPT-" \o Str(m.version)
    ELSE IF m.tier # NULL THEN Capitalized[m.tier]
    ELSE IF m.vendor # NULL THEN Capitalized[m.vendor]
    ELSE "Unknown"

\* C28: the label of a single mention follows the per-vendor rules:
\* anthropic gives "Claude <version> <Tier>", "Claude <Tier>", "Claude
\* <version>" or "Claude", the version upper-cased when it starts with "o";
\* openai gives the upper-cased version when it starts with "o", else
\* "GPT-<version>", and "OpenAI" without a version, whatever the tier; any
\* other or null vendor gives the capitalized tier, else the capitalized
\* vendor, else "Unknown", which best_model_label returns as null.
C28_LabelRules ==
    \A p \in Calls :
        (pc[p] = "labelled" /\ Len(result[p]) = 1) =>
            LET m == result[p][1]
            IN  /\ Str(fmt(m)) = RuleLabel(m)
                /\ IF RuleLabel(m) = "Unknown" THEN label[p] = NULL
                   ELSE label[p] # NULL /\ Str(label[p]) = RuleLabel(m)

\* C28 witness: a single openai mention with the version "o3" and a tier has
\* been rendered "O3".
C28_Witness ==
    /\ pc[1] = "labelled"
    /\ Len(result[1]) = 1
    /\ result[1][1].vendor = openai /\ result[1][1].version = o3
    /\ result[1][1].tier = pro
    /\ Str(label[1]) = "O3"

\* C29: in every returned list a mention has a null vendor if and only if
\* its confidence is "low", and every such mention is tier-anchored with
\* tier "pro" and a null family; every mention with a null tier has a
\* non-null vendor and a non-null family f with FAMILIES[f] that vendor.
C29_NullVendorIffLow ==
    \A p \in Calls : Done(p) =>
        \A m \in Elems(result[p]) :
            /\ \A t \in DOMAIN TIERS : (TIERS[t] = NULL) <=> (t = pro)
            /\ (m.vendor = NULL) <=> (m.confidence = low)
            /\ m.vendor = NULL =>
                  m.pass = "A" /\ m.tier = pro /\ m.family = NULL
            /\ m.tier = NULL =>
                  /\ m.vendor # NULL
                  /\ m.family # NULL
                  /\ m.family \in DOMAIN FAMILIES
                  /\ FAMILIES[m.family] = m.vendor

\* C29 witness: a returned list holds a "low" mention of "pro" without a
\* vendor beside a standalone version whose vendor was guessed from its
\* shape.
C29_Witness ==
    /\ Done(1)
    /\ \E a \in Elems(result[1]), b \in Elems(result[1]) :
          /\ a.vendor = NULL /\ a.confidence = low /\ a.tier = pro
          /\ b.pass = "B" /\ b.via = "shape" /\ b.tier = NULL
          /\ FAMILIES[b.family] = b.vendor

\* the labels of the explicit branches of normalize_version
CanonicalLabels ==
    {"Sonnet 4.5", "Sonnet 3.7", "Sonnet 3.5", "Opus 4", "Opus 3.5",
     "Haiku 3.5", "Claude 3.7", "Claude 3.5", "Claude 3", "Claude 4.5",
     "Claude 4", "Claude 2.5", "Claude 2", "Opus", "Sonnet", "Haiku",
     "Claude"}

\* C30 (as claimed): every result of extract_claude_version other than None
\* is a label of an explicit branch of normalize_version; the title-casing
\* at its end is never reached for text that a pattern matched, a match
\* without whitespace such as "claude3" included.
C30_CanonicalLabels ==
    \A p \in Calls :
        (pc[p] = "versioned" /\ label[p] # NULL)
            => Str(label[p]) \in CanonicalLabels

=============================================================================
